---- MODULE Spec2Model ----
(***************************************************************************)
(* The AI orchestration pipeline of home_assistant: AIOrchestrator.chat()  *)
(* with its detection, execution and formatting phases, the APIExecutor    *)
(* it drives, and AIOrchestrator.switch_provider().                        *)
(*                                                                         *)
(* Texts are sequences of string tokens: a Python f-string becomes the     *)
(* sequence of its literal pieces and interpolated values.  A dict is a    *)
(* sequence of <<key, value>> pairs (insertion order).  Confidences are    *)
(* hundredths (0.1 is 10).                                                 *)
(***************************************************************************)
EXTENDS Integers, Sequences, FiniteSets, TLC

(***************************************************************************)
(* Bounds                                                                  *)
(***************************************************************************)
\* longest tool_calls list a provider returns
MaxCalls == 2

(***************************************************************************)
(* Values                                                                  *)
(***************************************************************************)
None == "none"

\* AIOrchestrator.providers: the backend names with a provider class
Backends == {"anthropic", "openai"}

\* names switch_provider() is called with
SwitchNames == Backends \cup {"unknown"}

\* ai.provider as found in the 'ai' section of config.yaml
ConfigProviderNames == Backends \cup {"local"}

\* user messages
Messages == {"what is the weather in Tampa?"}

\* function names a tool call can carry
ToolNames == {"get_weather", "get_time", "set_light"}

\* the methods of the HomeAPIs target object
TargetMethods == {"get_weather"}

\* APIRegistry._apis after load-time registration: HomeAPIs registers
\* get_weather; another decorated function may have registered get_time
RegistryChoices == {{"get_weather"}, {"get_weather", "get_time"}}

\* confidence of the orchestrator's own error responses (0.1)
ErrorConfidence == 10

\* confidence of an answering provider (0.8)
ProviderConfidence == 80

IntentTypes == {"api_call", "chat", "unknown"}

(***************************************************************************)
(* dict helpers                                                            *)
(***************************************************************************)
HasKey(d, k) == \E i \in 1..Len(d) : d[i][1] = k

\* dict.get(k, default)
Get(d, k, default) ==
  IF HasKey(d, k)
    THEN d[CHOOSE i \in 1..Len(d) : d[i][1] = k][2]
    ELSE default

\* ', '.join(f"{k}: {v}" for k, v in d.items())
RECURSIVE JoinItems(_)
JoinItems(d) ==
  IF d = <<>> THEN <<>>
  ELSE IF Len(d) = 1 THEN <<d[1][1], ": ", d[1][2]>>
  ELSE <<d[1][1], ": ", d[1][2], ", ">> \o JoinItems(Tail(d))

\* a Python value returned by a target function: a dict or a string
DictValue(d) == [kind |-> "dict", items |-> d, str |-> ""]
StrValue(s) == [kind |-> "str", items |-> <<>>, str |-> s]
NoValue == [kind |-> "none", items |-> <<>>, str |-> ""]

\* str(value)
Str(v) ==
  IF v.kind = "dict" THEN <<"{">> \o JoinItems(v.items) \o <<"}">>
  ELSE IF v.kind = "str" THEN <<v.str>>
  ELSE <<"None">>

\* the token t occurs in the text
Contains(text, t) == \E i \in 1..Len(text) : text[i] = t

(***************************************************************************)
(* ToolCall, AIResponse                                                    *)
(***************************************************************************)
\* the arguments a provider sends with each function name
ArgumentsOf(name) ==
  IF name = "get_weather" THEN <<<<"location", "Tampa">>>> ELSE <<>>

ToolCall(id, name) == [id |-> id, name |-> name, arguments |-> ArgumentsOf(name)]

\* the tool-call id of the i-th call of one provider reply
CallId(i) == IF i = 1 THEN "call_1" ELSE IF i = 2 THEN "call_2" ELSE "call_3"

\* tool_calls lists of up to MaxCalls calls, ids in reply order
ToolCallLists ==
  UNION { { [i \in 1..n |-> ToolCall(CallId(i), names[i])] : names \in [1..n -> ToolNames] }
          : n \in 0..MaxCalls }

NoEntities == [provider |-> {}, has_function_results |-> FALSE, function_results |-> <<>>]

\* AIResponse(text, intent, confidence): entities default to {} and
\* there are no tool calls
AIResponse(text, intent, confidence) ==
  [text |-> text, intent |-> intent, confidence |-> confidence,
   tool_calls |-> <<>>, entities |-> NoEntities]

NoResponse == AIResponse(<<>>, "none", 0)

\* texts a provider writes (the backend may answer with no text at all)
ProviderTexts == {<<>>, <<"Hello, I am doing well.">>}

\* what chat_with_functions returns: prose with intent chat, or tool calls
\* with intent api_call and the text that came with them
ProviderResponses ==
  { [text |-> t, intent |-> "chat", confidence |-> ProviderConfidence,
     tool_calls |-> <<>>,
     entities |-> [NoEntities EXCEPT !.provider = IF t = <<>> THEN {} ELSE {"locations"}]]
    : t \in ProviderTexts }
  \cup
  { [text |-> <<"Let me check that.">>, intent |-> "api_call",
     confidence |-> ProviderConfidence, tool_calls |-> tc,
     entities |-> [NoEntities EXCEPT !.provider = {"locations"}]]
    : tc \in ToolCallLists \ {<<>>} }

\* what the backend raises during a live request: network, auth, rate limit
BackendErrors == {"Connection error", "401 Unauthorized", "429 Too Many Requests"}

\* the provider's `except Exception as e` clause around the request
ProviderErrorResponse(e) ==
  AIResponse(<<"I'm having trouble processing your request right now. Error: ", e>>,
             "unknown", ErrorConfidence)

\* a provider call returns or raises; an error of the backend during the
\* request is caught by the provider and returned as its error response
ChatWithFunctionsOutcomes ==
  {[kind |-> "raise", value |-> NoResponse, backend_error |-> ""]}
    \cup {[kind |-> "return", value |-> r, backend_error |-> ""] : r \in ProviderResponses}
    \cup {[kind |-> "return", value |-> ProviderErrorResponse(e), backend_error |-> e]
            : e \in BackendErrors}

SimpleChatOutcomes ==
  {[kind |-> "raise", text |-> <<>>]}
    \cup {[kind |-> "return", text |-> t]
            : t \in {<<>>, <<"It is sunny in Tampa.">>}}

\* what a call of a HomeAPIs method does: get_weather as written returns a
\* dict; the tests replace the target with mocks that return or raise
TargetOutcomes ==
  { [kind |-> "return", msg |-> "",
     value |-> DictValue(<<<<"location", "Tampa">>, <<"temperature", "85">>,
                           <<"description", "sunny">>, <<"units", "metric">>>>)],
    [kind |-> "return", msg |-> "", value |-> DictValue(<<<<"temperature", "85">>>>)],
    [kind |-> "return", msg |-> "", value |-> StrValue("done")],
    [kind |-> "raise", msg |-> "Weather service unavailable", value |-> NoValue] }

VARIABLES
  current_provider,   \* backend of the primary provider instance, or None
  fallback_provider,  \* backend of the fallback provider instance, or None
  available,          \* backend -> is_available() of a provider built from the AI config
  config,             \* ConfigManager._config: the 'ai' section
  file_provider,      \* ai.provider as last written to config.yaml
  apis,               \* APIRegistry._apis (its keys)
  api_registry,       \* orchestrator.api_registry is set
  api_executor,       \* orchestrator.api_executor is set
  home_apis,          \* orchestrator.home_apis is set
  op,                 \* the operation that took the last step
  pc,                 \* position inside chat()
  message,            \* chat(): message
  api_definitions,    \* chat(): api_definitions
  response,           \* chat(): response
  idx,                \* _execute_function_calls: position in tool_calls
  function_results,   \* _execute_function_calls: function_results
  ret,                \* what the last chat() gave its caller
  switch_ret,         \* what the last switch_provider() returned
  log,                \* calls made during the current turn, in order
  detected,           \* history: the detection result of the turn
  answered,           \* history: who produced the detection result
  primary_raised,     \* history: the primary raised in the detection phase
  prev_fell_back,     \* history: in the previous turn the primary raised and the fallback answered
  switch_name,        \* history: the name the last switch_provider() was called with
  save_called,        \* history: the last switch_provider() called save_config()
  p_backend,          \* a provider object: its class
  p_library,          \* a provider object: ANTHROPIC_AVAILABLE / OPENAI_AVAILABLE
  p_api_key,          \* a provider object: api_key is set
  p_client,           \* a provider object: client is set
  p_message,          \* provider.chat(): message
  p_outcome,          \* provider.chat(): how the request went at the backend
  p_result,           \* provider.chat(): what the caller got
  p_base,             \* provider._calculate_response_confidence(): arguments and value
  t_pc,               \* per thread: position inside chat()
  t_response,         \* per thread: chat(): response
  t_ret,              \* per thread: what chat() gave its caller
  r_heap,             \* the dict APIRegistry._apis and the dict a caller got from get_all_apis()
  r_ref,              \* which of the two dicts the caller holds
  r_history,          \* history: the register and clear operations so far
  r_op,               \* the registry operation that took the last step
  r_found,            \* execute_api_call: the name was found in the registry
  r_defs,             \* the api_definitions the schema generators were built with
  r_tools,            \* AnthropicFunctionCallPrompt.get_function_definitions()
  r_functions,        \* OpenAIFunctionCallPrompt.get_function_definitions()
  current_state,      \* HomeAssistant.current_state
  should_continue,    \* HomeAssistant.should_continue
  command_to_process, \* HomeAssistant.command_to_process
  response_to_speak,  \* HomeAssistant.response_to_speak
  stats,              \* HomeAssistant.stats, without start_time
  components,         \* HomeAssistant: tts is set, the recognizer and the detector are available
  running,            \* run_state_machine is inside its while loop
  event,              \* history: what the last iteration of the loop met
  heard,              \* history: the command recognized since the last wake word
  spoken,             \* history: the texts given to tts.speak since then
  n_pc,               \* collect_name: position
  attempts,           \* collect_name: attempts
  n_available,        \* NameCollector.recognizer.is_available()
  n_ret,              \* what collect_name gave its caller
  n_listens,          \* history: the calls of _listen_for_name so far
  n_heard,            \* history: the reply and the confirmation of the last _listen_for_name
  n_spoken            \* history: the texts given to tts.speak in the last attempt

vars == <<current_provider, fallback_provider, available, config, file_provider,
          apis, api_registry, api_executor, home_apis, op, pc, message,
          api_definitions, response, idx, function_results, ret, switch_ret,
          switch_name, save_called,
          log, detected, answered, primary_raised, prev_fell_back,
          p_backend, p_library, p_api_key, p_client, p_message, p_outcome, p_result, p_base,
          t_pc, t_response, t_ret,
          r_heap, r_ref, r_history, r_op, r_found, r_defs, r_tools, r_functions,
          current_state, should_continue, command_to_process, response_to_speak,
          stats, components, running, event, heard, spoken,
          n_pc, attempts, n_available, n_ret, n_listens, n_heard, n_spoken>>

providerVars == <<current_provider, fallback_provider, available, config, file_provider>>
apiVars == <<apis, api_registry, api_executor, home_apis>>
turnVars == <<message, api_definitions, response, idx, function_results, ret,
              log, detected, answered, primary_raised, prev_fell_back>>
switchVars == <<switch_ret, switch_name, save_called>>
objectVars ==
  <<p_backend, p_library, p_api_key, p_client, p_message, p_outcome, p_result, p_base>>
threadVars == <<t_pc, t_response, t_ret>>
registryVars == <<r_heap, r_ref, r_history, r_op, r_found, r_defs, r_tools, r_functions>>
loopVars ==
  <<current_state, should_continue, command_to_process, response_to_speak,
    stats, components, running, event, heard, spoken>>
nameVars == <<n_pc, attempts, n_available, n_ret, n_listens, n_heard, n_spoken>>
libraryVars == <<registryVars, loopVars, nameVars>>
coreVars == <<providerVars, apiVars, turnVars, switchVars, objectVars, threadVars, op, pc>>

(***************************************************************************)
(* APIExecutor.execute_api_call                                            *)
(***************************************************************************)
\* the executor's success dict
ExecSuccess(name, args, value) ==
  [keys |-> {"success", "result", "method", "parameters"}, success |-> TRUE,
   result |-> value, error |-> <<>>, method |-> name, parameters |-> args]

\* the executor's failure dict: the target function raised
ExecFailure(name, args, msg) ==
  [keys |-> {"success", "error", "method", "parameters"}, success |-> FALSE,
   result |-> NoValue, error |-> msg, method |-> name, parameters |-> args]

\* the target function is reached: the name is registered and the target has it
TargetInvoked(name, registry) == name \in registry /\ name \in TargetMethods

\* mutant: the lookup is made inside the try block, an unknown name being
\* reported like a failed execution
execute_api_call_Swallow(name, args, registry, outcome) ==
  IF name \notin registry
    THEN [kind |-> "return", msg |-> <<>>,
          value |-> ExecFailure(name, args, <<"Unknown API method: ", name>>)]
  ELSE IF name \notin TargetMethods
    THEN [kind |-> "raise", msg |-> <<"'HomeAPIs' object has no attribute '", name, "'">>,
          value |-> ExecFailure(name, args, <<>>)]
  ELSE IF outcome.kind = "return"
    THEN [kind |-> "return", msg |-> <<>>, value |-> ExecSuccess(name, args, outcome.value)]
  ELSE [kind |-> "return", msg |-> <<>>, value |-> ExecFailure(name, args, <<outcome.msg>>)]

\* mutant: the call of the target function is not guarded
execute_api_call_Propagate(name, args, registry, outcome) ==
  IF name \notin registry
    THEN [kind |-> "raise", msg |-> <<"Unknown API method: ", name>>,
          value |-> ExecFailure(name, args, <<>>)]
  ELSE IF name \notin TargetMethods
    THEN [kind |-> "raise", msg |-> <<"'HomeAPIs' object has no attribute '", name, "'">>,
          value |-> ExecFailure(name, args, <<>>)]
  ELSE IF outcome.kind = "return"
    THEN [kind |-> "return", msg |-> <<>>, value |-> ExecSuccess(name, args, outcome.value)]
  ELSE [kind |-> "raise", msg |-> <<outcome.msg>>, value |-> ExecFailure(name, args, <<>>)]

\* execute_api_call(APICall(name, args), target) when a call of the target
\* function would end as `outcome`: a returned dict, or a raised message
execute_api_call(name, args, registry, outcome) ==
  IF name \notin registry
    THEN [kind |-> "raise", msg |-> <<"Unknown API method: ", name>>,
          value |-> ExecFailure(name, args, <<>>)]
  ELSE IF name \notin TargetMethods
    THEN [kind |-> "raise", msg |-> <<"'HomeAPIs' object has no attribute '", name, "'">>,
          value |-> ExecFailure(name, args, <<>>)]
  ELSE IF outcome.kind = "return"
    THEN [kind |-> "return", msg |-> <<>>, value |-> ExecSuccess(name, args, outcome.value)]
  ELSE [kind |-> "return", msg |-> <<>>, value |-> ExecFailure(name, args, <<outcome.msg>>)]

(***************************************************************************)
(* AIOrchestrator: pure parts                                              *)
(***************************************************************************)
\* mutant: the error response passes for an ordinary confident answer
AllProvidersFailed_Confident ==
  AIResponse(<<"I'm having trouble connecting to my AI services right now.">>,
             "chat", ProviderConfidence)

\* mutant: the error response is built without its text
AllProvidersFailed_NoText == AIResponse(<<>>, "unknown", ErrorConfidence)

\* the response when no provider answered
AllProvidersFailed ==
  AIResponse(<<"I'm having trouble connecting to my AI services right now.">>,
             "unknown", ErrorConfidence)

\* mutant: the tool_calls test is dropped from the condition
ShouldExecute_Always(r, executor, target) == executor /\ target

\* chat(): the condition under which tool calls are executed
ShouldExecute(r, executor, target) == r.tool_calls # <<>> /\ executor /\ target

\* _execute_function_calls: the entry appended when execute_api_call returned
ResultEntry(tool_call, result) == [tool_call_id |-> tool_call.id, result |-> result]

\* _execute_function_calls: the entry appended when execute_api_call raised
ErrorEntry(tool_call, msg) ==
  [tool_call_id |-> tool_call.id,
   result |-> [keys |-> {"success", "error"}, success |-> FALSE, result |-> NoValue,
               error |-> msg, method |-> "", parameters |-> <<>>]]

\* _execute_function_calls: one iteration of the loop, for a target outcome
ExecuteOne(tool_call, registry, outcome) ==
  LET r == execute_api_call(tool_call.name, tool_call.arguments, registry, outcome)
  IN IF r.kind = "return" THEN ResultEntry(tool_call, r.value)
                          ELSE ErrorEntry(tool_call, r.msg)

\* result_data.get('success')
Succeeded(result_data) == "success" \in result_data.keys /\ result_data.success

\* result_data.get('error', 'Unknown error')
ErrorOf(result_data) ==
  IF "error" \in result_data.keys THEN result_data.error ELSE <<"Unknown error">>

\* mutant: the scan keeps the last failed entry instead of returning at the first
FirstFailed_Last(results) ==
  IF \E i \in 1..Len(results) : ~Succeeded(results[i].result)
    THEN CHOOSE i \in 1..Len(results) :
           /\ ~Succeeded(results[i].result)
           /\ \A j \in (i + 1)..Len(results) : Succeeded(results[j].result)
    ELSE 0

\* _format_function_results_with_ai: the first failed entry, 0 when all succeeded
FirstFailed(results) ==
  IF \E i \in 1..Len(results) : ~Succeeded(results[i].result)
    THEN CHOOSE i \in 1..Len(results) :
           /\ ~Succeeded(results[i].result)
           /\ \A j \in 1..(i - 1) : Succeeded(results[j].result)
    ELSE 0

\* _format_function_results_with_ai: the text returned for a failed call
ErrorText(results) ==
  <<"I encountered an error: ">> \o ErrorOf(results[FirstFailed(results)].result)

\* _build_function_results_context
RECURSIVE _build_function_results_context(_)
_build_function_results_context(results) ==
  IF results = <<>> THEN <<>>
  ELSE
    LET result_data == results[1].result
        line ==
          IF Succeeded(result_data)
            THEN <<"- ", IF "method" \in result_data.keys THEN result_data.method ELSE "function",
                   "() returned: ">>
                 \o (IF result_data.result.kind = "dict"
                       THEN JoinItems(result_data.result.items)
                       ELSE Str(result_data.result))
            ELSE <<"- Function call failed: ">> \o ErrorOf(result_data)
    IN line \o (IF Len(results) > 1 THEN <<"\n">> ELSE <<>>)
            \o _build_function_results_context(Tail(results))

\* _format_function_results_with_ai: format_message
FormatMessage(original_message, results) ==
  <<"I asked: ", original_message,
    "I called the following functions and got these results:">>
  \o _build_function_results_context(results)
  \o <<"Please provide a natural, helpful response to my original question using this information.">>

\* ", ".join(str(result) for each successful entry)
RECURSIVE JoinSuccessful(_)
JoinSuccessful(results) ==
  IF results = <<>> THEN <<>>
  ELSE
    LET rest == JoinSuccessful(Tail(results))
    IN IF Succeeded(results[1].result)
         THEN Str(results[1].result.result) \o (IF rest = <<>> THEN <<>> ELSE <<", ">> \o rest)
         ELSE rest

\* mutant: the weather template reads the location under a key the result lacks
_basic_format_function_results_WrongKey(results) ==
  IF Len(results) = 1 /\ Succeeded(results[1].result)
    THEN
      LET result_data == results[1].result
          result == result_data.result
      IN IF result_data.method = "get_weather" /\ result.kind = "dict"
           THEN
             LET units == Get(result.items, "units", "metric")
                 unit_symbol == IF units = "metric" THEN "°C"
                                ELSE IF units = "imperial" THEN "°F" ELSE "K"
             IN <<"The weather in ", Get(result.items, "city", "your location"),
                  " is currently ", Get(result.items, "description", "unknown conditions"),
                  " with a temperature of ", Get(result.items, "temperature", "unknown"),
                  unit_symbol, ".">>
           ELSE <<"Here's the result: ">> \o Str(result)
    ELSE <<"Here are the results: ">> \o JoinSuccessful(results)

\* _basic_format_function_results
_basic_format_function_results(results) ==
  IF Len(results) = 1 /\ Succeeded(results[1].result)
    THEN
      LET result_data == results[1].result
          result == result_data.result
      IN IF result_data.method = "get_weather" /\ result.kind = "dict"
           THEN
             LET units == Get(result.items, "units", "metric")
                 unit_symbol == IF units = "metric" THEN "°C"
                                ELSE IF units = "imperial" THEN "°F" ELSE "K"
             IN <<"The weather in ", Get(result.items, "location", "your location"),
                  " is currently ", Get(result.items, "description", "unknown conditions"),
                  " with a temperature of ", Get(result.items, "temperature", "unknown"),
                  unit_symbol, ".">>
           ELSE <<"Here's the result: ">> \o Str(result)
    ELSE <<"Here are the results: ">> \o JoinSuccessful(results)

\* chat(): the response after the formatting pass
\* mutant: a formatted response is handed back as ordinary conversation
Formatted_AsChat(r, text, results) ==
  [r EXCEPT !.text = text,
            !.intent = "chat",
            !.entities = [@ EXCEPT !.has_function_results = TRUE,
                                   !.function_results = results]]

Formatted(r, text, results) ==
  [r EXCEPT !.text = text,
            !.entities = [@ EXCEPT !.has_function_results = TRUE,
                                   !.function_results = results]]

(***************************************************************************)
(* Construction                                                            *)
(***************************************************************************)
\* ConfigManager.get_ai_config()['provider'] read with default 'anthropic'
ProviderName(cfg) ==
  IF cfg.has_ai /\ cfg.provider # "unset" THEN cfg.provider ELSE "anthropic"

\* _initialize_providers: the provider kept for a name
Construct(name, avail) == IF name \in Backends /\ avail[name] THEN name ELSE None

\* _initialize_providers: the fallback is the opposite of the primary
FallbackName(name) == IF name = "anthropic" THEN "openai" ELSE "anthropic"

NoReturn == [kind |-> "none", value |-> NoResponse]

Configs ==
  {[has_ai |-> FALSE, provider |-> "unset"]}
    \cup {[has_ai |-> TRUE, provider |-> p] : p \in ConfigProviderNames}

\* no provider object is under study
NoObject ==
  /\ p_backend = None
  /\ p_library = FALSE
  /\ p_api_key = FALSE
  /\ p_client = FALSE
  /\ p_message = None
  /\ p_outcome = None
  /\ p_result = None
  /\ p_base = None

\* the registry is not under study
NoRegistry ==
  /\ r_heap = None
  /\ r_ref = None
  /\ r_history = <<>>
  /\ r_op = None
  /\ r_found = None
  /\ r_defs = <<>>
  /\ r_tools = <<>>
  /\ r_functions = <<>>

\* no main loop
NoLoop ==
  /\ current_state = None
  /\ should_continue = FALSE
  /\ command_to_process = None
  /\ response_to_speak = None
  /\ stats = None
  /\ components = None
  /\ running = FALSE
  /\ event = None
  /\ heard = None
  /\ spoken = <<>>

\* no name collection
NoName ==
  /\ n_pc = None
  /\ attempts = 0
  /\ n_available = FALSE
  /\ n_ret = None
  /\ n_listens = 0
  /\ n_heard = None
  /\ n_spoken = <<>>

NoLibrary == NoRegistry /\ NoLoop /\ NoName

\* no concurrent caller
NoThreads ==
  /\ t_pc = <<>>
  /\ t_response = <<>>
  /\ t_ret = <<>>

\* AIOrchestrator.__init__
Construction ==
  /\ available \in [Backends -> BOOLEAN]
  /\ config \in Configs
  /\ file_provider = config.provider
  /\ current_provider = Construct(ProviderName(config), available)
  /\ fallback_provider = Construct(FallbackName(ProviderName(config)), available)
  /\ apis \in RegistryChoices
  /\ api_registry = FALSE
  /\ api_executor = FALSE
  /\ home_apis = FALSE
  /\ op = None
  /\ pc = "idle"
  /\ message = None
  /\ api_definitions = {}
  /\ response = NoResponse
  /\ idx = 0
  /\ function_results = <<>>
  /\ ret = NoReturn
  /\ switch_ret = None
  /\ switch_name = None
  /\ save_called = FALSE
  /\ log = <<>>
  /\ detected = NoResponse
  /\ answered = None
  /\ primary_raised = FALSE
  /\ prev_fell_back = FALSE

Init == Construction /\ NoObject /\ NoThreads /\ NoLibrary

(***************************************************************************)
(* chat()                                                                  *)
(***************************************************************************)
\* a call as logged: who was called with what, how it ended ("return" or
\* "raise") and the text it returned or raised
Call(o, role, backend, name, id, msg, outcome, reply) ==
  [op |-> o, role |-> role, backend |-> backend, name |-> name, id |-> id,
   message |-> msg, outcome |-> outcome, reply |-> reply,
   backend_error |-> "", args |-> <<>>, value |-> NoValue]

\* mutant: the declared defaults are filled in before the call
Kwargs_WithDefaults(parameters) ==
  IF HasKey(parameters, "units") THEN parameters
  ELSE Append(parameters, <<"units", "metric">>)

\* execute_api_call: method(**api_call.parameters)
Kwargs(parameters) == parameters

\* mutant: the entry is inserted at the front
Collect_Prepend(results, entry) == <<entry>> \o results

\* _execute_function_calls: function_results.append(entry)
Collect(results, entry) == Append(results, entry)

\* mutant: a primary that raised is demoted, the fallback taking its place
PrimaryFailed_Demote ==
  /\ primary_raised' = TRUE
  /\ pc' = "fallback"
  /\ current_provider' = fallback_provider
  /\ fallback_provider' = current_provider
  /\ UNCHANGED <<response, detected, answered>>

\* _get_ai_response_with_functions: the primary raised, which is only logged
PrimaryFailed ==
  /\ primary_raised' = TRUE
  /\ pc' = "fallback"
  /\ UNCHANGED <<response, detected, answered, current_provider, fallback_provider>>

\* chat() up to the detection phase: lazy API components, definitions.
\* _initialize_api_components imports modules of the package itself, so the
\* three components are built together on first use; registry reference,
\* executor and target stay set from then on.
ChatBegin(m) ==
  /\ pc \in {"idle", "done"}
  /\ op' = "chat"
  /\ message' = m
  /\ api_registry' = TRUE
  /\ api_executor' = (IF api_registry THEN api_executor ELSE TRUE)
  /\ home_apis' = (IF api_registry THEN home_apis ELSE TRUE)
  /\ api_definitions' = apis
  /\ response' = NoResponse
  /\ idx' = 0
  /\ function_results' = <<>>
  /\ ret' = NoReturn
  /\ log' = <<>>
  /\ detected' = NoResponse
  /\ answered' = None
  /\ primary_raised' = FALSE
  /\ prev_fell_back' = (primary_raised /\ answered = "fallback")
  /\ pc' = "primary"
  /\ UNCHANGED <<providerVars, apis, switchVars>>
  /\ UNCHANGED <<objectVars, threadVars, libraryVars>>

\* _get_ai_response_with_functions: the primary provider
TryPrimary ==
  /\ pc = "primary"
  /\ op' = "chat"
  /\ IF current_provider = None
       THEN /\ pc' = "fallback"
            /\ UNCHANGED <<response, log, detected, answered, primary_raised,
                           current_provider, fallback_provider>>
       ELSE \E o \in ChatWithFunctionsOutcomes :
              /\ log' = Append(log, [Call("chat_with_functions", "primary", current_provider,
                                          "", "", <<message>>, o.kind, o.value.text)
                                       EXCEPT !.backend_error = o.backend_error])
              /\ IF o.kind = "return"
                   THEN /\ response' = o.value
                        /\ detected' = o.value
                        /\ answered' = "primary"
                        /\ pc' = "branch"
                        /\ UNCHANGED <<primary_raised, current_provider, fallback_provider>>
                   ELSE PrimaryFailed
  /\ UNCHANGED <<available, config, file_provider, apiVars, message, api_definitions, idx, function_results,
                 ret, switchVars, prev_fell_back>>
  /\ UNCHANGED <<objectVars, threadVars, libraryVars>>

\* _get_ai_response_with_functions: the fallback provider, then the error response
TryFallback ==
  /\ pc = "fallback"
  /\ op' = "chat"
  /\ IF fallback_provider = None
       THEN /\ response' = AllProvidersFailed
            /\ detected' = AllProvidersFailed
            /\ answered' = "nobody"
            /\ UNCHANGED log
       ELSE \E o \in ChatWithFunctionsOutcomes :
              /\ log' = Append(log, [Call("chat_with_functions", "fallback", fallback_provider,
                                          "", "", <<message>>, o.kind, o.value.text)
                                       EXCEPT !.backend_error = o.backend_error])
              /\ IF o.kind = "return"
                   THEN /\ response' = o.value
                        /\ detected' = o.value
                        /\ answered' = "fallback"
                   ELSE /\ response' = AllProvidersFailed
                        /\ detected' = AllProvidersFailed
                        /\ answered' = "nobody"
  /\ pc' = "branch"
  /\ UNCHANGED <<providerVars, apiVars, message, api_definitions, idx, function_results,
                 ret, switchVars, primary_raised, prev_fell_back>>
  /\ UNCHANGED <<objectVars, threadVars, libraryVars>>

\* chat(): execute the tool calls, or return the response as it is
Branch ==
  /\ pc = "branch"
  /\ op' = "chat"
  /\ IF ShouldExecute(response, api_executor, home_apis)
       THEN /\ pc' = (IF response.tool_calls = <<>> THEN "format" ELSE "execute")
            /\ idx' = 1
            /\ UNCHANGED ret
       ELSE /\ pc' = "done"
            /\ ret' = [kind |-> "result", value |-> response]
            /\ UNCHANGED idx
  /\ UNCHANGED <<providerVars, apiVars, message, api_definitions, response,
                 function_results, switchVars, log, detected, answered,
                 primary_raised, prev_fell_back>>
  /\ UNCHANGED <<objectVars, threadVars, libraryVars>>

\* _execute_function_calls: one iteration of the loop
ExecuteFunctionCall ==
  /\ pc = "execute"
  /\ op' = "chat"
  /\ \E o \in TargetOutcomes :
       LET tool_call == response.tool_calls[idx]
           r == execute_api_call(tool_call.name, tool_call.arguments, apis, o)
           executed == Call("execute_api_call", "", "", tool_call.name, tool_call.id,
                            <<>>, r.kind, r.msg)
           invoked == [Call("target", "", "", tool_call.name, tool_call.id, <<>>, o.kind,
                            IF o.kind = "raise" THEN <<o.msg>> ELSE <<>>)
                         EXCEPT !.args = Kwargs(tool_call.arguments), !.value = o.value]
       IN /\ function_results' = Collect(function_results, ExecuteOne(tool_call, apis, o))
          /\ log' = IF TargetInvoked(tool_call.name, apis)
                      THEN log \o <<executed, invoked>>
                      ELSE Append(log, executed)
  /\ idx' = idx + 1
  /\ pc' = IF idx = Len(response.tool_calls) THEN "format" ELSE "execute"
  /\ UNCHANGED <<providerVars, apiVars, message, api_definitions, response, ret,
                 switchVars, detected, answered, primary_raised, prev_fell_back>>
  /\ UNCHANGED <<objectVars, threadVars, libraryVars>>

\* no second AI call was made
NoSimpleChat == [kind |-> "none", text |-> <<>>]

\* _format_function_results_with_ai: the text when no execution failed and
\* the second AI call ended as `o`
FormatText(results, o) ==
  IF o.kind = "return" THEN o.text
  ELSE _basic_format_function_results(results)

\* _format_function_results_with_ai: the text `t` it can give for the results,
\* whether simple_chat was called on the primary and how that call ended
FormatOutcomes(results, primary) ==
  IF results = <<>>
    THEN {[t |-> <<"I couldn't execute any functions to help with your request.">>,
           called |-> FALSE, o |-> NoSimpleChat]}
  ELSE IF FirstFailed(results) # 0
    THEN {[t |-> ErrorText(results), called |-> FALSE, o |-> NoSimpleChat]}
  ELSE IF primary = None
    THEN {[t |-> FormatText(results, NoSimpleChat), called |-> FALSE, o |-> NoSimpleChat]}
  ELSE {[t |-> FormatText(results, o), called |-> TRUE, o |-> o] : o \in SimpleChatOutcomes}

\* _format_function_results_with_ai and the end of chat()
FormatFunctionResults ==
  /\ pc = "format"
  /\ op' = "chat"
  /\ \E text \in FormatOutcomes(function_results, current_provider) :
       /\ response' = Formatted(response, text.t, function_results)
       /\ ret' = [kind |-> "result", value |-> response']
       /\ log' = IF text.called
                   THEN Append(log, Call("simple_chat", "primary", current_provider, "", "",
                                         FormatMessage(message, function_results),
                                         text.o.kind, text.o.text))
                   ELSE log
  /\ pc' = "done"
  /\ UNCHANGED <<providerVars, apiVars, message, api_definitions, idx, function_results,
                 switchVars, detected, answered, primary_raised, prev_fell_back>>
  /\ UNCHANGED <<objectVars, threadVars, libraryVars>>

(***************************************************************************)
(* switch_provider()                                                       *)
(***************************************************************************)
\* ConfigManager.save_config: the write succeeds, or fails and is only logged
SaveConfig(cfg) == {cfg.provider, file_provider}

\* mutant: the name is written to the configuration before it is looked up
switch_provider_WriteFirst(provider_name, current, cfg, avail) ==
  IF provider_name \notin Backends
    THEN [ret |-> "false", current |-> current,
          config |-> [cfg EXCEPT !.provider = IF cfg.has_ai THEN provider_name ELSE @],
          save |-> cfg.has_ai]
  ELSE IF ~avail[provider_name]
    THEN [ret |-> "false", current |-> current, config |-> cfg, save |-> FALSE]
  ELSE IF cfg.has_ai
    THEN [ret |-> "true", current |-> provider_name,
          config |-> [cfg EXCEPT !.provider = provider_name], save |-> TRUE]
  ELSE [ret |-> "false", current |-> provider_name, config |-> cfg, save |-> FALSE]

\* switch_provider: what it returns, the primary and the configuration it
\* leaves, and whether it called save_config(). config['ai'] raises KeyError
\* when the configuration has no 'ai' section, after the primary was replaced.
switch_provider(provider_name, current, cfg, avail) ==
  IF provider_name \notin Backends
    THEN [ret |-> "false", current |-> current, config |-> cfg, save |-> FALSE]
  ELSE IF ~avail[provider_name]
    THEN [ret |-> "false", current |-> current, config |-> cfg, save |-> FALSE]
  ELSE IF cfg.has_ai
    THEN [ret |-> "true", current |-> provider_name,
          config |-> [cfg EXCEPT !.provider = provider_name], save |-> TRUE]
  ELSE [ret |-> "false", current |-> provider_name, config |-> cfg, save |-> FALSE]

SwitchProvider(provider_name) ==
  /\ pc \in {"idle", "done"}
  /\ op' = "switch_provider"
  /\ pc' = "idle"
  /\ LET r == switch_provider(provider_name, current_provider, config, available)
     IN /\ switch_ret' = r.ret
        /\ current_provider' = r.current
        /\ config' = r.config
        /\ save_called' = r.save
        /\ file_provider' \in IF r.save THEN SaveConfig(r.config) ELSE {file_provider}
  /\ switch_name' = provider_name
  /\ message' = None
  /\ api_definitions' = {}
  /\ response' = NoResponse
  /\ idx' = 0
  /\ function_results' = <<>>
  /\ ret' = NoReturn
  /\ log' = <<>>
  /\ detected' = NoResponse
  /\ UNCHANGED <<fallback_provider, available, apiVars, answered, primary_raised,
                 prev_fell_back>>
  /\ UNCHANGED <<objectVars, threadVars, libraryVars>>

Next ==
  \/ \E m \in Messages : ChatBegin(m)
  \/ TryPrimary
  \/ TryFallback
  \/ Branch
  \/ ExecuteFunctionCall
  \/ FormatFunctionResults
  \/ \E n \in SwitchNames : SwitchProvider(n)

Spec == Init /\ [][Next]_vars

(***************************************************************************)
(* A provider object: construction, is_available(), chat()                 *)
(***************************************************************************)
\* messages given to a provider
ProviderMessages == Messages \cup {"hello", "dim the bedroom lamp"}

\* what classify_intent and _extract_entities look for in a message: the
\* keywords it contains, a leading question word, a closing question mark,
\* and the kinds of entity found
MessageFacts(m) ==
  IF m = "what is the weather in Tampa?"
    THEN [contains |-> {"weather"}, starts |-> "what", question_mark |-> TRUE,
          entities |-> {"locations"}]
  ELSE IF m = "dim the bedroom lamp"
    THEN [contains |-> {"dim"}, starts |-> "", question_mark |-> FALSE, entities |-> {}]
  ELSE [contains |-> {}, starts |-> "", question_mark |-> FALSE, entities |-> {}]

\* the keyword lists of classify_intent, which differ between the providers
WeatherKeywords(backend) ==
  {"weather", "temperature", "rain", "sunny", "cloudy", "forecast"}
    \cup (IF backend = "openai" THEN {"climate"} ELSE {})
PersonalPatterns(backend) ==
  {"what is your name", "who are you", "your name"}
    \cup (IF backend = "openai" THEN {"tell me about yourself"} ELSE {})
DeviceKeywords(backend) ==
  {"turn on", "turn off", "switch", "light", "device", "control"}
    \cup (IF backend = "openai" THEN {"dim", "brightness"} ELSE {})
TimeKeywords(backend) ==
  {"time", "date", "today", "tomorrow", "yesterday", "when", "schedule"}
    \cup (IF backend = "openai" THEN {"calendar"} ELSE {})
QuestionWords(backend) ==
  {"what", "how", "why", "where", "when", "who"}
    \cup (IF backend = "openai" THEN {"which", "can you"} ELSE {})

\* classify_intent: keyword matching, the first matching group wins
classify_intent(backend, m) ==
  LET f == MessageFacts(m)
  IN IF f.contains \cap WeatherKeywords(backend) # {} THEN "weather"
     ELSE IF f.contains \cap PersonalPatterns(backend) # {} THEN "personal_info"
     ELSE IF f.contains \cap DeviceKeywords(backend) # {} THEN "device_control"
     ELSE IF f.contains \cap TimeKeywords(backend) # {} THEN "time_date"
     ELSE IF f.starts \in QuestionWords(backend) \/ f.question_mark THEN "question"
     ELSE "general_chat"

\* the reply texts of the backend, each with its len() and whether it holds
\* one of the words 'error', 'sorry', 'cannot', 'unable', 'unavailable'
ReplyTexts ==
  { [text |-> <<>>, len |-> 0, indicator |-> FALSE],
    [text |-> <<"It is sunny in Tampa today, with a light sea wind.">>, len |-> 50,
     indicator |-> FALSE],
    [text |-> <<"Sorry, I cannot reach the weather service for now.">>, len |-> 50,
     indicator |-> TRUE],
    [text |-> <<"Hello! I am doing well, thank you. How can I help you today? Ask me about the weather or your lights">>,
     len |-> 100, indicator |-> FALSE],
    [text |-> <<"(the forecast of the next two weeks, day by day)">>, len |-> 1500,
     indicator |-> FALSE] }

\* finish_reason / stop_reason of a reply
FinishReasons == {"stop", "length", "content_filter", "stop_sequence"}

\* where inside the try block an exception is raised, and its message
StageErrors ==
  {[stage |-> "build", error |-> "'NoneType' object has no attribute 'get'"],
   [stage |-> "decode", error |-> "list index out of range"]}
    \cup {[stage |-> "request", error |-> e] : e \in BackendErrors}

NoOutcome ==
  [stage |-> "none", error |-> "", text |-> <<>>, len |-> 0, indicator |-> FALSE,
   finish_reason |-> "none"]

\* how one request goes: an exception at some stage, or a decoded reply
RequestOutcomes ==
  {[NoOutcome EXCEPT !.stage = e.stage, !.error = e.error] : e \in StageErrors}
    \cup {[stage |-> "reply", error |-> "", text |-> t.text, len |-> t.len,
           indicator |-> t.indicator, finish_reason |-> f]
            : t \in ReplyTexts, f \in FinishReasons}

Min(a, b) == IF a < b THEN a ELSE b
Max(a, b) == IF a > b THEN a ELSE b

\* AnthropicProvider.chat: min(0.95, 0.7 + (len(response_text) / 1000) * 0.2)
AnthropicConfidence(o) == Min(95, 70 + (o.len * 20) \div 1000)

\* OpenAIProvider._calculate_confidence
_calculate_confidence(o) ==
  LET base == 80
      short == IF o.len < 10 THEN 30 ELSE 0
      finish == IF o.finish_reason = "length" THEN 20
                ELSE IF o.finish_reason = "content_filter" THEN 40 ELSE 0
      words == IF o.indicator THEN 20 ELSE 0
  IN Max(ErrorConfidence, Min(95, base - short - finish - words))

\* texts given to the shared computation: the replies and two short texts
ConfidenceTexts ==
  ReplyTexts \cup {[text |-> <<"OK">>, len |-> 2, indicator |-> FALSE],
                   [text |-> <<"Sorry.">>, len |-> 6, indicator |-> TRUE]}

\* mutant: the score is returned as computed, without the clamp
_calculate_response_confidence_NoClamp(t, finish_reason) ==
  LET length_factor == Min(100, t.len)
      length == IF length_factor < 10 THEN 30 ELSE IF length_factor > 500 THEN 10 ELSE 0
      finish == IF finish_reason = "length" THEN 20
                ELSE IF finish_reason \in {"content_filter", "stop_sequence"} THEN 40 ELSE 0
      words == IF t.indicator THEN 20 ELSE 0
  IN 80 - length - finish - words

\* BaseAIProvider._calculate_response_confidence(response_text, finish_reason);
\* length_factor in hundredths
_calculate_response_confidence(t, finish_reason) ==
  LET length_factor == Min(100, t.len)
      length == IF length_factor < 10 THEN 30 ELSE IF length_factor > 500 THEN 10 ELSE 0
      finish == IF finish_reason = "length" THEN 20
                ELSE IF finish_reason \in {"content_filter", "stop_sequence"} THEN 40 ELSE 0
      words == IF t.indicator THEN 20 ELSE 0
  IN Max(10, Min(95, 80 - length - finish - words))

NotCalculated ==
  [called |-> FALSE, text |-> <<>>, len |-> 0, indicator |-> FALSE,
   finish_reason |-> "none", value |-> 0]

\* the outcome of a provider call as its caller sees it
Returns(r) == [kind |-> "return", msg |-> <<>>, value |-> r]
Raises(msg) == [kind |-> "raise", msg |-> msg, value |-> NoResponse]
NotCalled == [kind |-> "none", msg |-> <<>>, value |-> NoResponse]

\* is_available()
is_available(library, client, api_key) == library /\ client /\ api_key

ProviderLabel(backend) == IF backend = "anthropic" THEN "Anthropic" ELSE "OpenAI"

\* mutant: an exception of the request is not caught
chat_NoExcept(backend, avail, m, o) ==
  IF ~avail
    THEN Raises(<<ProviderLabel(backend), " provider is not available">>)
  ELSE IF o.stage # "reply"
    THEN Raises(<<o.error>>)
  ELSE Returns([AIResponse(o.text, classify_intent(backend, m),
                           IF backend = "anthropic" THEN AnthropicConfidence(o)
                                                    ELSE _calculate_confidence(o))
                  EXCEPT !.entities.provider = MessageFacts(m).entities])

\* chat(message): raises when the provider is not available; every exception
\* inside the try block is returned as the error response
chat(backend, avail, m, o) ==
  IF ~avail
    THEN Raises(<<ProviderLabel(backend), " provider is not available">>)
  ELSE IF o.stage # "reply"
    THEN Returns(ProviderErrorResponse(o.error))
  ELSE Returns([AIResponse(o.text, classify_intent(backend, m),
                           IF backend = "anthropic" THEN AnthropicConfidence(o)
                                                    ELSE _calculate_confidence(o))
                  EXCEPT !.entities.provider = MessageFacts(m).entities])

\* the orchestrator as constructed from a configuration with both keys
OneOrchestrator ==
  /\ Construction
  /\ available = [b \in Backends |-> TRUE]
  /\ config = [has_ai |-> TRUE, provider |-> "anthropic"]
  /\ apis = {"get_weather"}

\* __init__: the client is built when the key is set and the library is
\* installed, unless the library's constructor raises
ProviderInit ==
  /\ OneOrchestrator
  /\ NoLibrary
  /\ NoThreads
  /\ p_backend \in Backends
  /\ p_library \in BOOLEAN
  /\ p_api_key \in BOOLEAN
  /\ p_client \in (IF p_api_key /\ p_library THEN BOOLEAN ELSE {FALSE})
  /\ p_message = None
  /\ p_outcome = NoOutcome
  /\ p_result = NotCalled
  /\ p_base = NotCalculated

ProviderChat(m) ==
  /\ p_message' = m
  /\ \E o \in RequestOutcomes :
       /\ p_outcome' = IF is_available(p_library, p_client, p_api_key) THEN o ELSE NoOutcome
       /\ p_result' = chat(p_backend, is_available(p_library, p_client, p_api_key), m, o)
  /\ p_base' = NotCalculated
  /\ UNCHANGED <<p_backend, p_library, p_api_key, p_client>>
  /\ UNCHANGED <<providerVars, apiVars, turnVars, switchVars, threadVars, op, pc,
                 libraryVars>>

\* _calculate_response_confidence called on the provider object; finish_reason
\* defaults to None
CalculateResponseConfidence(t, finish_reason) ==
  /\ p_base' = [called |-> TRUE, text |-> t.text, len |-> t.len, indicator |-> t.indicator,
                finish_reason |-> finish_reason,
                value |-> _calculate_response_confidence(t, finish_reason)]
  /\ UNCHANGED <<p_backend, p_library, p_api_key, p_client, p_message, p_outcome, p_result>>
  /\ UNCHANGED <<providerVars, apiVars, turnVars, switchVars, threadVars, op, pc,
                 libraryVars>>

ProviderNext ==
  \/ \E m \in ProviderMessages : ProviderChat(m)
  \/ \E t \in ConfidenceTexts, f \in FinishReasons \cup {"none"} :
       CalculateResponseConfidence(t, f)

ProviderSpec == ProviderInit /\ [][ProviderNext]_vars

(***************************************************************************)
(* chat() called by several threads on one orchestrator                    *)
(***************************************************************************)
MaxThreads == 2

Threads == 1..MaxThreads

\* detection results of the concurrent callers: prose, one tool call, or the
\* error response when every provider raised
ThreadResponses ==
  {r \in ProviderResponses : r.text # <<>> /\ Len(r.tool_calls) <= 1
                             /\ \A i \in 1..Len(r.tool_calls) : r.tool_calls[i].name = "get_weather"}
    \cup {AllProvidersFailed}

\* what the concurrent callers leave alone: providers, registry, configuration
orchestratorVars ==
  <<providerVars, apis, turnVars, switchVars, objectVars, op, pc, libraryVars>>

ThreadInit ==
  /\ OneOrchestrator
  /\ NoLibrary
  /\ NoObject
  /\ t_pc = [t \in Threads |-> "idle"]
  /\ t_response = [t \in Threads |-> NoResponse]
  /\ t_ret = [t \in Threads |-> NoReturn]

\* chat(): context and wake word, which are locals of the caller
T_ChatBegin(t) ==
  /\ t_pc[t] \in {"idle", "done"}
  /\ t_pc' = [t_pc EXCEPT ![t] = "init"]
  /\ t_response' = [t_response EXCEPT ![t] = NoResponse]
  /\ t_ret' = [t_ret EXCEPT ![t] = NoReturn]
  /\ UNCHANGED <<api_registry, api_executor, home_apis>>
  /\ UNCHANGED orchestratorVars

\* _initialize_api_components: if self.api_registry is None
T_CheckRegistry(t) ==
  /\ t_pc[t] = "init"
  /\ t_pc' = [t_pc EXCEPT ![t] = IF api_registry THEN "detect" ELSE "set_registry"]
  /\ UNCHANGED <<api_registry, api_executor, home_apis, t_response, t_ret>>
  /\ UNCHANGED orchestratorVars

\* _initialize_api_components: self.api_registry = APIRegistry
T_SetRegistry(t) ==
  /\ t_pc[t] = "set_registry"
  /\ api_registry' = TRUE
  /\ t_pc' = [t_pc EXCEPT ![t] = "set_executor"]
  /\ UNCHANGED <<api_executor, home_apis, t_response, t_ret>>
  /\ UNCHANGED orchestratorVars

\* _initialize_api_components: self.api_executor = APIExecutor()
T_SetExecutor(t) ==
  /\ t_pc[t] = "set_executor"
  /\ api_executor' = TRUE
  /\ t_pc' = [t_pc EXCEPT ![t] = "set_home_apis"]
  /\ UNCHANGED <<api_registry, home_apis, t_response, t_ret>>
  /\ UNCHANGED orchestratorVars

\* _initialize_api_components: self.home_apis = HomeAPIs()
T_SetHomeApis(t) ==
  /\ t_pc[t] = "set_home_apis"
  /\ home_apis' = TRUE
  /\ t_pc' = [t_pc EXCEPT ![t] = "detect"]
  /\ UNCHANGED <<api_registry, api_executor, t_response, t_ret>>
  /\ UNCHANGED orchestratorVars

\* _get_ai_response_with_functions
T_Detect(t) ==
  /\ t_pc[t] = "detect"
  /\ \E r \in ThreadResponses : t_response' = [t_response EXCEPT ![t] = r]
  /\ t_pc' = [t_pc EXCEPT ![t] = "branch"]
  /\ UNCHANGED <<api_registry, api_executor, home_apis, t_ret>>
  /\ UNCHANGED orchestratorVars

\* chat(): if response.tool_calls and self.api_executor and self.home_apis
T_Branch(t) ==
  /\ t_pc[t] = "branch"
  /\ IF ShouldExecute(t_response[t], api_executor, home_apis)
       THEN /\ t_pc' = [t_pc EXCEPT ![t] = "execute"]
            /\ UNCHANGED t_ret
       ELSE /\ t_pc' = [t_pc EXCEPT ![t] = "done"]
            /\ t_ret' = [t_ret EXCEPT ![t] = [kind |-> "result", value |-> t_response[t]]]
  /\ UNCHANGED <<api_registry, api_executor, home_apis, t_response>>
  /\ UNCHANGED orchestratorVars

\* _execute_function_calls and _format_function_results_with_ai, which work
\* on locals of the caller
T_Execute(t) ==
  /\ t_pc[t] = "execute"
  /\ \E o \in TargetOutcomes :
       LET calls == t_response[t].tool_calls
           results == [i \in 1..Len(calls) |-> ExecuteOne(calls[i], apis, o)]
       IN \E text \in FormatOutcomes(results, current_provider) :
            t_ret' = [t_ret EXCEPT ![t] = [kind |-> "result",
                                           value |-> Formatted(t_response[t], text.t, results)]]
  /\ t_pc' = [t_pc EXCEPT ![t] = "done"]
  /\ UNCHANGED <<api_registry, api_executor, home_apis, t_response>>
  /\ UNCHANGED orchestratorVars

ThreadNext ==
  \E t \in Threads :
    \/ T_ChatBegin(t)
    \/ T_CheckRegistry(t)
    \/ T_SetRegistry(t)
    \/ T_SetExecutor(t)
    \/ T_SetHomeApis(t)
    \/ T_Detect(t)
    \/ T_Branch(t)
    \/ T_Execute(t)

ThreadSpec == ThreadInit /\ [][ThreadNext]_vars

(***************************************************************************)
(* api_method, APIRegistry, function schemas                               *)
(***************************************************************************)
MaxOps == 3
MaxWakes == 2
MaxErrors == 2

\* a formal parameter; `default` is the repr of the declared default
Param(name, type, has_default, default) ==
  [name |-> name, type |-> type, has_default |-> has_default, default |-> default]

\* one stripped line of a docstring: a section header, an entry `key: text`,
\* or prose (no key)
Header(h) == [header |-> h, key |-> "", text |-> ""]
Entry(k, t) == [header |-> "", key |-> k, text |-> t]
Prose(t) == [header |-> "", key |-> "", text |-> t]

\* HomeAPIs.get_weather as decorated in home_apis.py
GetWeather ==
  [id |-> "HomeAPIs.get_weather", fname |-> "get_weather",
   title |-> "Weather Information",
   description |-> "Get current weather conditions and forecast for any location",
   params |-> <<Param("self", "", FALSE, ""),
                Param("location", "str", FALSE, ""),
                Param("units", "str", TRUE, "'metric'"),
                Param("days", "int", TRUE, "1")>>,
   doc |-> <<Prose("Get weather information for a specific location."),
             Header("Args"),
             Entry("location", "City name or address (e.g., \"Tampa, FL\")"),
             Entry("units", "Temperature units - \"metric\", \"imperial\", or \"kelvin\""),
             Entry("days", "Number of forecast days (1-7)"),
             Header("Returns"),
             Prose("Weather information dictionary")>>]

\* decorated functions besides HomeAPIs.get_weather: a second function named
\* get_weather without docstring; a function whose only parameter declares
\* the default None and whose docstring has no Args section; a plain function
\* whose docstring has an Example section after Args and no Returns section
Functions ==
  { GetWeather,
    [id |-> "Mock.get_weather", fname |-> "get_weather", title |-> "Weather",
     description |-> "Weather of a city",
     params |-> <<Param("self", "", FALSE, ""), Param("city", "str", FALSE, "")>>,
     doc |-> <<>>],
    [id |-> "HomeAPIs.get_time", fname |-> "get_time", title |-> "Time",
     description |-> "Current time",
     params |-> <<Param("self", "", FALSE, ""), Param("timezone", "str", TRUE, "None")>>,
     doc |-> <<Prose("Current time in a timezone."),
               Entry("timezone", "IANA name")>>],
    [id |-> "set_light", fname |-> "set_light", title |-> "Lights",
     description |-> "Set the light level of a room",
     params |-> <<Param("room", "str", FALSE, ""), Param("level", "int", TRUE, "100"),
                  Param("mode", "", FALSE, "")>>,
     doc |-> <<Header("Args"),
               Entry("room", "Name of the room"),
               Entry("level (int)", "Brightness in percent"),
               Header("Example"),
               Entry("mode", "night")>>] }

FunctionNames == {f.fname : f \in Functions}

\* the definitions a caller puts into the mapping it holds
CallerFunctions == {f \in Functions : f.id \in {"Mock.get_weather", "HomeAPIs.get_time"}}

\* extract_param_description: the loop over the stripped lines
RECURSIVE ScanLines(_, _, _, _)
ScanLines(lines, i, in_args_section, param_name) ==
  IF i > Len(lines) THEN ""
  ELSE IF lines[i].header = "Args"
    THEN ScanLines(lines, i + 1, TRUE, param_name)
  ELSE IF in_args_section /\ lines[i].header = "Returns" THEN ""
  ELSE IF in_args_section /\ lines[i].key = param_name THEN lines[i].text
  ELSE ScanLines(lines, i + 1, in_args_section, param_name)

\* extract_param_description(func, param_name)
extract_param_description(func, param_name) ==
  ScanLines(func.doc, 1, FALSE, param_name)

\* api_method: param_info of one parameter
ParamInfo(func, param) ==
  [type |-> IF param.type = "" THEN "str" ELSE param.type,
   required |-> ~param.has_default,
   default |-> IF param.has_default THEN param.default ELSE "None",
   description |-> extract_param_description(func, param.name)]

\* api_method: the parameters dict, one item per parameter but self
RECURSIVE Introspect(_, _)
Introspect(func, params) ==
  IF params = <<>> THEN <<>>
  ELSE IF Head(params).name = "self" THEN Introspect(func, Tail(params))
  ELSE <<<<Head(params).name, ParamInfo(func, Head(params))>>>>
         \o Introspect(func, Tail(params))

\* api_method: the APIDefinition built for the decorated function
APIDefinition(func) ==
  [name |-> func.title, description |-> func.description, method |-> func.id,
   method_name |-> func.fname, parameters |-> Introspect(func, func.params)]

\* d[k] = v on a dict kept in insertion order
Put(d, k, v) ==
  IF HasKey(d, k)
    THEN [i \in 1..Len(d) |-> IF d[i][1] = k THEN <<k, v>> ELSE d[i]]
    ELSE Append(d, <<k, v>>)

\* del d[k]
Remove(d, k) == SelectSeq(d, LAMBDA item : item[1] # k)

\* mutant: a name already registered keeps its definition
register_KeepFirst(_apis, api_def) ==
  IF HasKey(_apis, api_def.method_name) THEN _apis
  ELSE Put(_apis, api_def.method_name, api_def)

\* APIRegistry.register: cls._apis[api_def.method.__name__] = api_def
register(_apis, api_def) == Put(_apis, api_def.method_name, api_def)

\* mutant: the registry's own dict is handed out
get_all_apis_NoCopy(heap) == [ref |-> "registry", heap |-> heap]

\* APIRegistry.get_all_apis: cls._apis.copy(), a new dict with the same items
get_all_apis(heap) == [ref |-> "copy", heap |-> [heap EXCEPT !.copy = heap.registry]]

\* BaseFunctionCallPrompt._get_required_params
RECURSIVE _get_required_params(_)
_get_required_params(api_parameters) ==
  IF api_parameters = <<>> THEN <<>>
  ELSE (IF Head(api_parameters)[2].required THEN <<Head(api_parameters)[1]>> ELSE <<>>)
         \o _get_required_params(Tail(api_parameters))

\* BaseFunctionCallPrompt._convert_properties
_convert_properties(api_parameters) ==
  [i \in 1..Len(api_parameters) |->
     <<api_parameters[i][1],
       [type |-> "string", description |-> api_parameters[i][2].description]>>]

\* AnthropicFunctionCallPrompt.get_function_definitions
AnthropicFunctionDefinitions(definitions) ==
  [i \in 1..Len(definitions) |->
     [name |-> definitions[i][1],
      description |-> definitions[i][2].description,
      input_schema |-> [type |-> "object",
                        properties |-> _convert_properties(definitions[i][2].parameters),
                        required |-> _get_required_params(definitions[i][2].parameters)]]]

\* mutant: the declared type of a parameter is passed on
OpenAIFunctionDefinitions_Typed(definitions) ==
  [i \in 1..Len(definitions) |->
     [name |-> definitions[i][1],
      description |-> definitions[i][2].description,
      parameters |-> [type |-> "object",
                      properties |->
                        [j \in 1..Len(definitions[i][2].parameters) |->
                           <<definitions[i][2].parameters[j][1],
                             [type |-> definitions[i][2].parameters[j][2].type,
                              description |->
                                definitions[i][2].parameters[j][2].description]>>],
                      required |-> _get_required_params(definitions[i][2].parameters)]]]

\* OpenAIFunctionCallPrompt.get_function_definitions
OpenAIFunctionDefinitions(definitions) ==
  [i \in 1..Len(definitions) |->
     [name |-> definitions[i][1],
      description |-> definitions[i][2].description,
      parameters |-> [type |-> "object",
                      properties |-> _convert_properties(definitions[i][2].parameters),
                      required |-> _get_required_params(definitions[i][2].parameters)]]]

NotLookedUp == [name |-> None, found |-> FALSE]

\* the module is imported: the class attribute _apis is an empty dict
RegistryInit ==
  /\ OneOrchestrator
  /\ NoObject
  /\ NoThreads
  /\ NoLoop
  /\ NoName
  /\ r_heap = [registry |-> <<>>, copy |-> <<>>]
  /\ r_ref = None
  /\ r_history = <<>>
  /\ r_op = None
  /\ r_found = NotLookedUp
  /\ r_defs = <<>>
  /\ r_tools = <<>>
  /\ r_functions = <<>>

\* what a registry operation leaves alone: results of earlier calls are
\* locals of their callers and are dropped
DropResults ==
  /\ r_found' = NotLookedUp
  /\ r_defs' = <<>>
  /\ r_tools' = <<>>
  /\ r_functions' = <<>>
  /\ UNCHANGED <<coreVars, loopVars, nameVars>>

\* @api_method(...) applied to a function
Register(func) ==
  /\ Len(r_history) < MaxOps
  /\ r_heap' = [r_heap EXCEPT !.registry = register(@, APIDefinition(func))]
  /\ r_history' = Append(r_history, [op |-> "register", func |-> func])
  /\ r_op' = "register"
  /\ UNCHANGED r_ref
  /\ DropResults

\* APIRegistry.clear()
Clear ==
  /\ Len(r_history) < MaxOps
  /\ r_heap' = [r_heap EXCEPT !.registry = <<>>]
  /\ r_history' = Append(r_history, [op |-> "clear", func |-> GetWeather])
  /\ r_op' = "clear"
  /\ UNCHANGED r_ref
  /\ DropResults

\* a caller keeps what APIRegistry.get_all_apis() returns
GetAllApis ==
  /\ r_heap' = get_all_apis(r_heap).heap
  /\ r_ref' = get_all_apis(r_heap).ref
  /\ r_op' = "get_all_apis"
  /\ UNCHANGED r_history
  /\ DropResults

\* the caller adds or replaces a key of the mapping it holds
CallerPut(func) ==
  /\ r_ref # None
  /\ r_heap' = [r_heap EXCEPT ![r_ref] = Put(@, func.fname, APIDefinition(func))]
  /\ r_op' = "put"
  /\ UNCHANGED <<r_ref, r_history>>
  /\ DropResults

\* the caller removes a key of the mapping it holds
CallerRemove(name) ==
  /\ r_ref # None
  /\ HasKey(r_heap[r_ref], name)
  /\ r_heap' = [r_heap EXCEPT ![r_ref] = Remove(@, name)]
  /\ r_op' = "remove"
  /\ UNCHANGED <<r_ref, r_history>>
  /\ DropResults

\* execute_api_call: apis = APIRegistry.get_all_apis(); name in apis
ExecutorLookup(name) ==
  /\ r_found' = [name |-> name, found |-> HasKey(r_heap.registry, name)]
  /\ r_op' = "lookup"
  /\ r_defs' = <<>>
  /\ r_tools' = <<>>
  /\ r_functions' = <<>>
  /\ UNCHANGED <<r_heap, r_ref, r_history>>
  /\ UNCHANGED <<coreVars, loopVars, nameVars>>

\* both schema generators built with the same api_definitions: what the
\* registry holds, or the mapping a caller holds
GenerateSchemas ==
  /\ \E definitions \in {r_heap.registry} \cup
                            (IF r_ref = None THEN {} ELSE {r_heap[r_ref]}) :
       /\ r_defs' = definitions
       /\ r_tools' = AnthropicFunctionDefinitions(definitions)
       /\ r_functions' = OpenAIFunctionDefinitions(definitions)
  /\ r_op' = "schemas"
  /\ r_found' = NotLookedUp
  /\ UNCHANGED <<r_heap, r_ref, r_history>>
  /\ UNCHANGED <<coreVars, loopVars, nameVars>>

RegistryNext ==
  \/ \E f \in Functions : Register(f)
  \/ Clear
  \/ GetAllApis
  \/ \E f \in CallerFunctions : CallerPut(f)
  \/ \E n \in FunctionNames : CallerRemove(n)
  \/ \E n \in FunctionNames : ExecutorLookup(n)
  \/ GenerateSchemas

RegistrySpec == RegistryInit /\ [][RegistryNext]_vars

(***************************************************************************)
(* HomeAssistant.run_state_machine                                         *)
(***************************************************************************)
LISTENING_FOR_WAKE_WORD == "listening"
WAKE_WORD_DETECTED == "wake_detected"
PROCESSING_COMMAND == "processing"
RESPONDING == "responding"
ERROR == "error"
SHUTTING_DOWN == "shutdown"

AssistantState ==
  {LISTENING_FOR_WAKE_WORD, WAKE_WORD_DETECTED, PROCESSING_COMMAND, RESPONDING,
   ERROR, SHUTTING_DOWN}

Commands == {"turn on the lights", "what time is it"}
NotSure == "I'm not sure how to help with that."
Trouble == "I'm having trouble processing your request right now."
Acknowledgment == "Yes?"
TryAgain == "I didn't hear anything. Try again."

\* what the wake word detector does in one call: it reports the wake word
\* ("detected"), nothing ("nothing"), raises an Exception ("error") or
\* KeyboardInterrupt ("interrupt"); "raise" is an exception outside the try
\* block (get_wake_word, the format of the confidence)
WakeOutcomes == {"detected", "nothing", "error", "interrupt", "raise"}

\* what listen_for_speech gives: a text, nothing, or an exception
SpeechOutcomes ==
  {[kind |-> "text", text |-> c] : c \in Commands}
    \cup {[kind |-> k, text |-> ""] : k \in {"nothing", "raise"}}

\* what ai_orchestrator.chat gives: a response with a text, a response with
\* an empty text, None, or an exception
AIOutcomes ==
  {[kind |-> "text", text |-> "It is noon."],
   [kind |-> "empty", text |-> ""],
   [kind |-> "none", text |-> ""],
   [kind |-> "raise", text |-> ""]}

\* what tts.speak gives: True, False, or an exception
SpeakOutcomes == {"true", "false", "raise"}

\* listen_for_wake_word: detected, should_continue, and whether an error was
\* counted
listen_for_wake_word(detector_available, o) ==
  IF ~detector_available
    THEN [detected |-> FALSE, should_continue |-> TRUE, error |-> FALSE]
  ELSE IF o = "detected"
    THEN [detected |-> TRUE, should_continue |-> TRUE, error |-> FALSE]
  ELSE IF o = "interrupt"
    THEN [detected |-> FALSE, should_continue |-> FALSE, error |-> FALSE]
  ELSE IF o = "error"
    THEN [detected |-> FALSE, should_continue |-> TRUE, error |-> TRUE]
  ELSE [detected |-> FALSE, should_continue |-> TRUE, error |-> FALSE]

\* process_voice_command: the command or None, the texts spoken, and whether
\* an error was counted
process_voice_command(recognizer_available, tts, o) ==
  IF ~recognizer_available
    THEN [command |-> None, spoken |-> <<>>, error |-> FALSE]
  ELSE IF o.kind = "raise"
    THEN [command |-> None, spoken |-> IF tts THEN <<Acknowledgment>> ELSE <<>>,
          error |-> TRUE]
  ELSE IF o.kind = "text" /\ o.text # ""
    THEN [command |-> o.text, spoken |-> IF tts THEN <<Acknowledgment>> ELSE <<>>,
          error |-> FALSE]
  ELSE [command |-> None,
        spoken |-> IF tts THEN <<Acknowledgment, TryAgain>> ELSE <<>>,
        error |-> FALSE]

\* mutant: a failing or empty AI result gives None
process_with_ai_NoneOnFailure(command, o) ==
  IF o.kind = "raise" THEN [response |-> None, error |-> TRUE]
  ELSE IF o.kind = "text" /\ o.text # "" THEN [response |-> o.text, error |-> FALSE]
  ELSE [response |-> None, error |-> FALSE]

\* process_with_ai: the text to speak, and whether an error was counted
process_with_ai(command, o) ==
  IF o.kind = "raise" THEN [response |-> Trouble, error |-> TRUE]
  ELSE IF o.kind = "text" /\ o.text # "" THEN [response |-> o.text, error |-> FALSE]
  ELSE [response |-> NotSure, error |-> FALSE]

\* speak_response: its value, the texts given to tts.speak, and whether an
\* error was counted
speak_response(tts, text, o) ==
  IF ~tts THEN [success |-> FALSE, spoken |-> <<>>, error |-> FALSE]
  ELSE IF o = "raise" THEN [success |-> FALSE, spoken |-> <<text>>, error |-> TRUE]
  ELSE [success |-> o = "true", spoken |-> <<text>>, error |-> FALSE]

\* mutant: a response that could not be spoken is kept and the loop goes to
\* the error state
Responded_ErrorOnFailure(success, command, text) ==
  IF success
    THEN [current_state |-> LISTENING_FOR_WAKE_WORD, command_to_process |-> None,
          response_to_speak |-> None]
  ELSE [current_state |-> ERROR, command_to_process |-> command,
        response_to_speak |-> text]

\* the RESPONDING branch after speak_response: always back to listening, the
\* processed data cleared
Responded(success, command, text) ==
  [current_state |-> LISTENING_FOR_WAKE_WORD, command_to_process |-> None,
   response_to_speak |-> None]

NoStats == [wake_word_detections |-> 0, commands_processed |-> 0, errors |-> 0]

\* an error is counted only while the counter is below its bound
MayCount(error) == error => stats.errors < MaxErrors

Counted(error) ==
  IF error THEN [stats EXCEPT !.errors = @ + 1] ELSE stats

\* __init__, and run() up to the loop: initialize_components has set tts
LoopInit ==
  /\ OneOrchestrator
  /\ NoObject
  /\ NoThreads
  /\ NoRegistry
  /\ NoName
  /\ current_state = LISTENING_FOR_WAKE_WORD
  /\ should_continue = TRUE
  /\ command_to_process = None
  /\ response_to_speak = None
  /\ stats = NoStats
  /\ components \in {[tts |-> TRUE, recognizer |-> r, detector |-> d] : r, d \in BOOLEAN}
  /\ running = TRUE
  /\ event = None
  /\ heard = None
  /\ spoken = <<>>

LoopFrame == UNCHANGED <<coreVars, registryVars, nameVars, components>>

\* one iteration in LISTENING_FOR_WAKE_WORD; the break and the assignment
\* after the loop are part of it
Listen(o) ==
  /\ running /\ should_continue
  /\ current_state = LISTENING_FOR_WAKE_WORD
  /\ IF o = "raise"
       THEN /\ components.detector
            /\ MayCount(TRUE)
            /\ stats' = Counted(TRUE)
            /\ current_state' = ERROR
            /\ event' = "exception"
            /\ UNCHANGED <<should_continue, running, heard, spoken>>
       ELSE LET r == listen_for_wake_word(components.detector, o)
            IN /\ MayCount(r.error)
               /\ should_continue' = r.should_continue
               /\ IF r.detected
                    THEN /\ stats.wake_word_detections < MaxWakes
                         /\ stats' = [stats EXCEPT !.wake_word_detections = @ + 1]
                         /\ current_state' = WAKE_WORD_DETECTED
                         /\ event' = "wake_word"
                         /\ heard' = None
                         /\ spoken' = <<>>
                         /\ UNCHANGED running
                    ELSE /\ stats' = Counted(r.error)
                         /\ UNCHANGED <<heard, spoken>>
                         /\ IF ~r.should_continue
                              THEN /\ current_state' = SHUTTING_DOWN
                                   /\ running' = FALSE
                                   /\ event' = "interrupt"
                              ELSE /\ UNCHANGED <<current_state, running>>
                                   /\ event' = "no_wake_word"
  /\ UNCHANGED <<command_to_process, response_to_speak>>
  /\ LoopFrame

\* one iteration in WAKE_WORD_DETECTED
WakeDetected(o) ==
  /\ running /\ should_continue
  /\ current_state = WAKE_WORD_DETECTED
  /\ LET r == process_voice_command(components.recognizer, components.tts, o)
     IN /\ MayCount(r.error)
        /\ stats' = Counted(r.error)
        /\ IF r.command # None
             THEN /\ current_state' = PROCESSING_COMMAND
                  /\ command_to_process' = r.command
                  /\ event' = "command"
                  /\ heard' = r.command
                  /\ spoken' = <<>>
             ELSE /\ current_state' = LISTENING_FOR_WAKE_WORD
                  /\ event' = "no_command"
                  /\ spoken' = spoken \o r.spoken
                  /\ UNCHANGED <<command_to_process, heard>>
  /\ UNCHANGED <<should_continue, response_to_speak, running>>
  /\ LoopFrame

\* one iteration in PROCESSING_COMMAND
Processing(o) ==
  /\ running /\ should_continue
  /\ current_state = PROCESSING_COMMAND
  /\ LET r == process_with_ai(command_to_process, o)
     IN /\ MayCount(r.error)
        /\ IF r.response # None /\ r.response # ""
             THEN /\ current_state' = RESPONDING
                  /\ response_to_speak' = r.response
                  /\ stats' = [Counted(r.error) EXCEPT !.commands_processed = @ + 1]
                  /\ event' = "response"
             ELSE /\ current_state' = LISTENING_FOR_WAKE_WORD
                  /\ stats' = Counted(r.error)
                  /\ event' = "no_response"
                  /\ UNCHANGED response_to_speak
  /\ UNCHANGED <<should_continue, command_to_process, running, heard, spoken>>
  /\ LoopFrame

\* one iteration in RESPONDING
Responding(o) ==
  /\ running /\ should_continue
  /\ current_state = RESPONDING
  /\ LET r == speak_response(components.tts, response_to_speak, o)
         n == Responded(r.success, command_to_process, response_to_speak)
     IN /\ MayCount(r.error)
        /\ stats' = Counted(r.error)
        /\ spoken' = spoken \o r.spoken
        /\ event' = IF r.success THEN "spoken" ELSE "not_spoken"
        /\ current_state' = n.current_state
        /\ command_to_process' = n.command_to_process
        /\ response_to_speak' = n.response_to_speak
  /\ UNCHANGED <<should_continue, running, heard>>
  /\ LoopFrame

\* one iteration in ERROR: a pause, then back to listening
Recover ==
  /\ running /\ should_continue
  /\ current_state = ERROR
  /\ current_state' = LISTENING_FOR_WAKE_WORD
  /\ event' = "recovered"
  /\ UNCHANGED <<should_continue, command_to_process, response_to_speak, stats,
                 running, heard, spoken>>
  /\ LoopFrame

\* KeyboardInterrupt reaches the handler of the loop: break, and the
\* assignment after the loop
Interrupt ==
  /\ running /\ should_continue
  /\ current_state' = SHUTTING_DOWN
  /\ running' = FALSE
  /\ event' = "interrupt"
  /\ UNCHANGED <<should_continue, command_to_process, response_to_speak, stats,
                 heard, spoken>>
  /\ LoopFrame

LoopNext ==
  \/ \E o \in WakeOutcomes : Listen(o)
  \/ \E o \in SpeechOutcomes : WakeDetected(o)
  \/ \E o \in AIOutcomes : Processing(o)
  \/ \E o \in SpeakOutcomes : Responding(o)
  \/ Recover
  \/ Interrupt

LoopSpec == LoopInit /\ [][LoopNext]_vars

(***************************************************************************)
(* NameCollector.collect_name                                              *)
(***************************************************************************)
max_attempts == 50
\* every spoken text is a sequence of strings
funny_prompts ==
  <<<<"It seems like you forgot to give me a name. What is my name?">>,
   <<"Hello? Anyone there? I'm still waiting for my name!">>,
   <<"I'm feeling a bit nameless here. Care to help me out?">>,
   <<"My identity crisis is getting worse. What should I call myself?">>,
   <<"I've been thinking... and I still don't have a name. Ideas?">>,
   <<"The silence is deafening! What name would you like to give me?">>,
   <<"I'm starting to feel like Voldemort - the assistant who must not be named!">>,
   <<"Knock knock! Who's there? I don't know because I don't have a name yet!">>,
   <<"I'm having an existential crisis. Who am I without a name?">>,
   <<"Is this thing on? I'm still waiting for you to name me!">>>>

\* the prompts random.choice is taken to pick
PromptChoices == {funny_prompts[1], funny_prompts[Len(funny_prompts)]}
WhatIsMyName == <<"What is my name?">>
LetMeTryAgain == <<"Let me try again.">>
DidYouSay(n) == <<"Did you say my name is", n>>
Great(n) == <<"Great! I'll remember that my name is", n>>

\* what listen_for_speech can give as (success, text): texts are sequences
\* of words
NotHeard == [success |-> FALSE, words |-> <<>>]
Replies ==
  {[success |-> TRUE, words |-> w] :
     w \in {<<"your", "name", "is", "Jarvis">>, <<"call", "you", "Friday">>,
            <<"john">>, <<"your", "name", "is">>,
            <<"let", "me", "think", "about", "it">>}}
    \cup {NotHeard}
Confirmations ==
  {[success |-> TRUE, words |-> w] :
     w \in {<<"yes">>, <<"Okay">>, <<"no">>, <<"not", "right">>}}
    \cup {NotHeard}

\* str.lower and str.capitalize on the words in use
LowerWord(w) ==
  IF w = "Jarvis" THEN "jarvis"
  ELSE IF w = "Friday" THEN "friday"
  ELSE IF w = "Okay" THEN "okay"
  ELSE w
CapitalizeWord(w) ==
  IF w = "jarvis" THEN "Jarvis"
  ELSE IF w = "friday" THEN "Friday"
  ELSE IF w = "john" THEN "John"
  ELSE IF w = "is" THEN "Is"
  ELSE IF w = "it" THEN "It"
  ELSE w
LowerText(w) == [i \in 1 .. Len(w) |-> LowerWord(w[i])]

\* the patterns, in the order of the list; each ends with a space
patterns ==
  << <<"your", "name", "is">>, <<"you", "are">>, <<"call", "you">>,
     <<"name", "you">>, <<"my", "name", "is">> >>

\* where the pattern, followed by a further word, first occurs in the text;
\* 0 when it does not
PatternAt(t, q) ==
  LET at == {i \in 1 .. Len(t) :
               /\ i + Len(q) <= Len(t)
               /\ SubSeq(t, i, i + Len(q) - 1) = q}
  IN IF at = {} THEN 0 ELSE CHOOSE i \in at : \A j \in at : i <= j

\* _extract_name_from_response
_extract_name_from_response(w) ==
  LET t == LowerText(w)
      found == {k \in 1 .. Len(patterns) : PatternAt(t, patterns[k]) > 0}
  IN IF found # {}
       THEN LET k == CHOOSE x \in found : \A y \in found : x <= y
                q == patterns[k]
            IN CapitalizeWord(t[PatternAt(t, q) + Len(q)])
     ELSE IF Len(t) = 1 THEN CapitalizeWord(t[1])
     ELSE IF Len(t) <= 3 THEN CapitalizeWord(t[Len(t)])
     ELSE None

positive_words ==
  {"yes", "yeah", "yep", "correct", "right", "exactly", "sure", "ok", "okay"}

\* the positive words that occur inside a word
PositiveIn(w) ==
  IF w = "okay" THEN {"ok", "okay"}
  ELSE IF w \in positive_words THEN {w}
  ELSE {}

\* _is_positive_response: a positive word occurs somewhere in the text
_is_positive_response(w) ==
  \E i \in 1 .. Len(w) : PositiveIn(LowerWord(w[i])) # {}

\* mutant: the confirmation is not looked at
Confirmed_Always(c) == TRUE

\* the condition on the confirmation: success and response and positive
Confirmed(c) == c.success /\ c.words # <<>> /\ _is_positive_response(c.words)

\* _listen_for_name: the name or None, the texts spoken, and what was heard
_listen_for_name(is_avail, r, c) ==
  IF ~is_avail THEN [value |-> None, texts |-> <<>>, heard |-> <<>>]
  ELSE IF r.success /\ r.words # <<>> /\ _extract_name_from_response(r.words) # None
    THEN LET n == _extract_name_from_response(r.words)
         IN IF Confirmed(c)
              THEN [value |-> n, texts |-> <<DidYouSay(n), Great(n)>>, heard |-> <<r, c>>]
              ELSE [value |-> None, texts |-> <<DidYouSay(n), LetMeTryAgain>>,
                    heard |-> <<r, c>>]
  ELSE [value |-> None, texts |-> <<>>, heard |-> <<r>>]

NameInit ==
  /\ OneOrchestrator
  /\ NoObject
  /\ NoThreads
  /\ NoRegistry
  /\ NoLoop
  /\ n_pc = "start"
  /\ attempts = 0
  /\ n_available \in BOOLEAN
  /\ n_ret = None
  /\ n_listens = 0
  /\ n_heard = <<>>
  /\ n_spoken = <<>>

NameFrame == UNCHANGED <<coreVars, registryVars, loopVars, n_available>>

\* the first attempt: the polite question, then _listen_for_name
FirstAttempt(r, c) ==
  /\ n_pc = "start"
  /\ LET l == _listen_for_name(n_available, r, c)
     IN /\ n_spoken' = <<WhatIsMyName>> \o l.texts
        /\ n_heard' = l.heard
        /\ n_listens' = n_listens + 1
        /\ IF l.value # None
             THEN n_pc' = "done" /\ n_ret' = [kind |-> "return", value |-> l.value]
             ELSE n_pc' = "loop" /\ UNCHANGED n_ret
  /\ attempts' = 0
  /\ NameFrame

\* one pass of the while loop: the pause, a random prompt, _listen_for_name
Retry(prompt, r, c) ==
  /\ n_pc = "loop"
  /\ attempts < max_attempts
  /\ LET l == _listen_for_name(n_available, r, c)
     IN /\ n_spoken' = <<prompt>> \o l.texts
        /\ n_heard' = l.heard
        /\ n_listens' = n_listens + 1
        /\ IF l.value # None
             THEN /\ n_pc' = "done"
                  /\ n_ret' = [kind |-> "return", value |-> l.value]
                  /\ UNCHANGED attempts
             ELSE /\ attempts' = attempts + 1
                  /\ UNCHANGED <<n_pc, n_ret>>
  /\ NameFrame

\* the loop ends: collect_name returns None
GiveUp ==
  /\ n_pc = "loop"
  /\ ~(attempts < max_attempts)
  /\ n_pc' = "done"
  /\ n_ret' = [kind |-> "return", value |-> None]
  /\ UNCHANGED <<attempts, n_listens, n_heard, n_spoken>>
  /\ NameFrame

\* the confirmation is listened for only when a name was extracted
ConfirmationsAfter(r) ==
  IF n_available /\ r.success /\ _extract_name_from_response(r.words) # None
    THEN Confirmations
    ELSE {NotHeard}

NameNext ==
  \/ \E r \in Replies : \E c \in ConfirmationsAfter(r) : FirstAttempt(r, c)
  \/ \E q \in PromptChoices, r \in Replies :
       \E c \in ConfirmationsAfter(r) : Retry(q, r, c)
  \/ GiveUp

NameSpec == NameInit /\ [][NameNext]_vars

(***************************************************************************)
(* Properties                                                              *)
(***************************************************************************)
\* the calls of one operation made so far in the turn, in order
CallsOf(o) == SelectSeq(log, LAMBDA e : e.op = o)

\* the calls made on the primary provider so far in the turn
PrimaryCalls == SelectSeq(log, LAMBDA e : e.role = "primary")

\* chat() has returned to its caller
Returned == pc = "done"

\* the tool calls of the turn were all executed and none failed
AllSucceeded ==
  /\ function_results # <<>>
  /\ Len(function_results) = Len(detected.tool_calls)
  /\ \A i \in 1..Len(function_results) : Succeeded(function_results[i].result)

\* the result keeps what the detection result carried, apart from text and entities
BuiltFrom(r, d) ==
  /\ r.intent = d.intent
  /\ r.confidence = d.confidence
  /\ r.tool_calls = d.tool_calls
  /\ r.entities.provider = d.entities.provider

\* C1: when the primary raised in the detection phase and the fallback
\* answered, the result of chat() is built from the fallback's result and the
\* primary is called no second time in the turn, by any operation.
C1_PrimaryNotCalledAgain ==
  (Returned /\ primary_raised /\ answered = "fallback")
    => /\ ret.kind = "result"
       /\ BuiltFrom(ret.value, detected)
       /\ Len(PrimaryCalls) = 1

\* C2: when no provider answered in the detection phase (none held, or each
\* one held raised), chat() returns intent UNKNOWN with confidence at most
\* 0.2, and the turn executes no function and makes no simple_chat call.
C2_NoProviderAnswer ==
  (Returned /\ answered = "nobody")
    => /\ ret.kind = "result"
       /\ ret.value.intent = "unknown"
       /\ ret.value.confidence <= 20
       /\ ret.value.tool_calls = <<>>
       /\ \A i \in 1..Len(log) : log[i].op = "chat_with_functions"

\* C2 witness: primary and fallback were both called and both raised
C2_Witness ==
  /\ Returned
  /\ answered = "nobody"
  /\ Len(log) = 2
  /\ log[1].outcome = "raise"
  /\ log[2].outcome = "raise"

\* the turn executed a tool call whose name is not in the registry
UnknownNameExecuted ==
  \E i \in 1..Len(log) : log[i].op = "execute_api_call" /\ log[i].name \notin apis

\* C3: a tool call naming a function that is not in the registry makes chat()
\* raise to its caller; it does not return a ChatResult describing the error.
C3_UnknownFunctionRaises ==
  (Returned /\ UnknownNameExecuted) => ret.kind = "raised"

\* the i-th entry is the first failed one in call order
IsFirstFailure(i) ==
  /\ ~function_results[i].result.success
  /\ \A j \in 1..(i - 1) : function_results[j].result.success

\* the message the target function raised for the tool call with this id
RaisedBy(id) ==
  LET invoked == SelectSeq(log, LAMBDA e : e.op = "target" /\ e.id = id)
  IN IF invoked # <<>> /\ invoked[1].outcome = "raise" THEN invoked[1].reply ELSE <<>>

\* C4: when at least one execution failed, the turn makes no simple_chat call
\* and the text is the error template with the error message of the first
\* failed call in call order (the message the target raised, when it raised).
C4_FirstErrorReported ==
  (Returned /\ \E i \in 1..Len(function_results) : ~function_results[i].result.success)
    => /\ CallsOf("simple_chat") = <<>>
       /\ \E i \in 1..Len(function_results) :
            /\ IsFirstFailure(i)
            /\ ret.value.text
                 = <<"I encountered an error: ">> \o function_results[i].result.error
            /\ RaisedBy(function_results[i].tool_call_id) # <<>>
                 => ret.value.text
                      = <<"I encountered an error: ">>
                          \o RaisedBy(function_results[i].tool_call_id)

\* C4 witness: two calls failed with different messages
C4_Witness ==
  /\ Returned
  /\ Len(function_results) = 2
  /\ ~function_results[1].result.success
  /\ ~function_results[2].result.success
  /\ function_results[1].result.error # function_results[2].result.error
  /\ RaisedBy(function_results[1].tool_call_id) # <<>>

\* C5: when the detection result carries tool calls and all of them execute
\* successfully, the turn makes exactly one simple_chat call, whether the
\* primary or the fallback produced the detection result.
C5_OneSimpleChat ==
  (Returned /\ detected.tool_calls # <<>> /\ AllSucceeded)
    => Len(CallsOf("simple_chat")) = 1

\* the second AI call was made and raised
SimpleChatRaised ==
  /\ CallsOf("simple_chat") # <<>>
  /\ CallsOf("simple_chat")[1].outcome = "raise"

\* the turn executed one get_weather call that returned a dict
SingleWeatherResult ==
  /\ Len(function_results) = 1
  /\ function_results[1].result.method = "get_weather"
  /\ function_results[1].result.result.kind = "dict"

\* C6: when all tool calls succeeded and the simple_chat call raised, chat()
\* returns the detection result with the text replaced by the template of the
\* function results; for one get_weather result the text holds the result's
\* location and description where it has them.
C6_TemplateOnFormatFailure ==
  (Returned /\ AllSucceeded /\ SimpleChatRaised)
    => /\ ret.kind = "result"
       /\ BuiltFrom(ret.value, detected)
       /\ ret.value.text # <<>>
       /\ ret.value.text # detected.text
       /\ Len(function_results) > 1
            => /\ ret.value.text[1] = "Here are the results: "
               /\ \A i \in 1..Len(function_results) :
                    \A j \in 1..Len(Str(function_results[i].result.result)) :
                      Contains(ret.value.text, Str(function_results[i].result.result)[j])
       /\ (Len(function_results) = 1 /\ ~SingleWeatherResult)
            => ret.value.text
                 = <<"Here's the result: ">> \o Str(function_results[1].result.result)
       /\ SingleWeatherResult
            => LET d == function_results[1].result.result.items
               IN /\ ret.value.text[1] = "The weather in "
                  /\ \A k \in {"location", "description"} :
                       HasKey(d, k) => Contains(ret.value.text, Get(d, k, ""))
                  /\ HasKey(d, "location") => ret.value.text[2] = Get(d, "location", "")
                  /\ HasKey(d, "description") => ret.value.text[4] = Get(d, "description", "")

\* C6 witness: one get_weather result with location Tampa and description sunny
C6_Witness ==
  /\ Returned
  /\ AllSucceeded
  /\ SimpleChatRaised
  /\ SingleWeatherResult
  /\ Contains(ret.value.text, "Tampa")
  /\ Contains(ret.value.text, "sunny")

\* the ids of a sequence of calls or entries
IdsOfCalls(calls) == [i \in 1..Len(calls) |-> calls[i].id]

C8_PassThrough ==
  (Returned /\ answered \in {"primary", "fallback"} /\ detected.tool_calls = <<>>)
    => /\ ret = [kind |-> "result", value |-> detected]
       /\ \A i \in 1..Len(log) : log[i].op = "chat_with_functions"
       /\ function_results = <<>>

\* C8 witness: the fallback answered with prose after the primary raised
C8_Witness ==
  /\ Returned
  /\ answered = "fallback"
  /\ primary_raised
  /\ detected.tool_calls = <<>>
  /\ detected.text # <<>>
  /\ ret.value.text = detected.text

\* every tool call of the turn names a registered function
AllNamesRegistered ==
  \A i \in 1..Len(detected.tool_calls) : detected.tool_calls[i].name \in apis

\* the text chat() returned is one a provider wrote: the detection text of a
\* reply without tool calls, or the text simple_chat returned
TextFromProvider ==
  \/ /\ answered \in {"primary", "fallback"}
     /\ detected.tool_calls = <<>>
     /\ ret.value.text = detected.text
  \/ /\ CallsOf("simple_chat") # <<>>
     /\ CallsOf("simple_chat")[1].outcome = "return"
     /\ ret.value.text = CallsOf("simple_chat")[1].reply

\* C9 as stated: with all tool-call names registered, whatever providers and
\* target functions raise or return, chat() returns a ChatResult whose text is
\* not empty.
C9_ReturnsNonEmptyText ==
  (Returned /\ AllNamesRegistered) => (ret.kind = "result" /\ ret.value.text # <<>>)

\* C9 amended: with all tool-call names registered, chat() returns a
\* ChatResult; its text is not empty unless it is a text a provider wrote.
C9_ReturnsResult ==
  (Returned /\ AllNamesRegistered)
    => /\ ret.kind = "result"
       /\ ret.value.text = <<>> => TextFromProvider

\* C9 witness: the primary raised, the fallback returned tool calls, a target
\* function raised, and chat() returned a result with a text
C9_Witness ==
  /\ Returned
  /\ AllNamesRegistered
  /\ primary_raised
  /\ answered = "fallback"
  /\ \E i \in 1..Len(log) : log[i].op = "target" /\ log[i].outcome = "raise"
  /\ ret.kind = "result"
  /\ ret.value.text # <<>>

\* C10: no step of chat() changes the primary or the fallback provider, only
\* switch_provider changes the primary; so a turn, also one that follows a turn
\* in which the primary raised and the fallback answered, calls the primary's
\* chat_with_functions first.
C10_FallbackNotSticky ==
  /\ [][(current_provider' # current_provider \/ fallback_provider' # fallback_provider)
          => op' = "switch_provider"]_vars
  /\ []((current_provider # None /\ log # <<>>)
          => /\ log[1].op = "chat_with_functions"
             /\ log[1].role = "primary"
             /\ log[1].backend = current_provider)

\* C10 witness: the turn after a turn that fell back has called the primary first
C10_Witness ==
  /\ prev_fell_back
  /\ op = "chat"
  /\ log # <<>>
  /\ log[1].op = "chat_with_functions"
  /\ log[1].role = "primary"
  /\ log[1].backend = current_provider

\* the primary's live request of this turn failed with an error of its backend
PrimaryBackendError ==
  /\ log # <<>>
  /\ log[1].op = "chat_with_functions"
  /\ log[1].role = "primary"
  /\ log[1].backend_error # ""

\* C11: when the primary's live request fails with a backend error (network,
\* auth or rate limit) and a fallback provider is held, the fallback is called
\* in the same turn with the same message and its result is what chat()
\* returns.
C11_BackendErrorTriggersFallback ==
  (Returned /\ PrimaryBackendError /\ fallback_provider # None)
    => \E i \in 1..Len(log) :
         /\ log[i].op = "chat_with_functions"
         /\ log[i].role = "fallback"
         /\ log[i].message = <<message>>
         /\ log[i].outcome = "return" => answered = "fallback"

\* the provider object's chat() has been called
ChatCalled == p_result.kind # "none"

\* the last request raised inside the try block of chat()
RequestFailed == p_outcome.stage \in {"build", "request", "decode"}

\* the result chat() gives for a failed request
IsErrorResult(r) ==
  /\ r.kind = "return"
  /\ r.value.intent = "unknown"
  /\ r.value.confidence = ErrorConfidence
  /\ r.value.text = <<"I'm having trouble processing your request right now. Error: ",
                      p_outcome.error>>

\* C12 as stated: in every provider state a chat call returns and never
\* raises; an error while building the request, calling the backend or
\* decoding the reply is returned as intent UNKNOWN, confidence 0.1 and a text
\* explaining the failure.
C12_ChatNeverRaises ==
  /\ p_result.kind # "raise"
  /\ RequestFailed => IsErrorResult(p_result)

\* C12 amended: a chat call on an available provider returns and never
\* raises, an error at any stage of the request being returned as intent
\* UNKNOWN, confidence 0.1 and a text explaining the failure; a chat call on a
\* provider that is not available raises.
C12_ChatRaisesOnlyWhenUnavailable ==
  ChatCalled =>
    /\ is_available(p_library, p_client, p_api_key) => p_result.kind = "return"
    /\ ~is_available(p_library, p_client, p_api_key) => p_result.kind = "raise"
    /\ RequestFailed => IsErrorResult(p_result)

\* C12 witness: the backend answered 429 and chat() returned the error result
C12_Witness ==
  /\ ChatCalled
  /\ p_outcome.stage = "request"
  /\ p_outcome.error = "429 Too Many Requests"
  /\ IsErrorResult(p_result)

\* positions in the log of the calls of the target function made for tool call id
TargetCallsFor(id) == {j \in 1..Len(log) : log[j].op = "target" /\ log[j].id = id}

\* the tool call of the detection result with this id
ToolCallOf(id) ==
  detected.tool_calls[CHOOSE k \in 1..Len(detected.tool_calls) : detected.tool_calls[k].id = id]

\* what execute_api_call returned for tool call id, as collected by the loop
ResultFor(id) ==
  function_results[CHOOSE k \in 1..Len(function_results)
                       : function_results[k].tool_call_id = id].result

\* C13: execute_api_call with a method name that is not a key of the registry
\* raises 'Unknown API method: <name>' instead of returning a result, and
\* calls no function of the target object.
C13_UnknownMethodRaises ==
  \A i \in 1..Len(log) :
    (log[i].op = "execute_api_call" /\ log[i].name \notin apis)
      => /\ log[i].outcome = "raise"
         /\ log[i].reply = <<"Unknown API method: ", log[i].name>>
         /\ TargetCallsFor(log[i].id) = {}

\* C13 witness: a tool call named a function that is not registered and the
\* executor was called with it
C13_Witness ==
  \E i \in 1..Len(log) :
    /\ log[i].op = "execute_api_call"
    /\ log[i].name = "set_light"
    /\ log[i].name \notin apis
    /\ log[i].outcome = "raise"

\* C14: when the target function of a registered method raises, execute_api_call
\* returns {success: false, error: <the exception's message>, method: <name>,
\* parameters: <the arguments>} and does not raise.
C14_TargetExceptionCaught ==
  \A i \in 1..Len(log) :
    (log[i].op = "target" /\ log[i].outcome = "raise")
      => /\ \E j \in 1..Len(log) : /\ log[j].op = "execute_api_call"
                                   /\ log[j].id = log[i].id
                                   /\ log[j].outcome = "return"
         /\ LET r == ResultFor(log[i].id)
            IN /\ r.keys = {"success", "error", "method", "parameters"}
               /\ r.success = FALSE
               /\ r.error = log[i].reply
               /\ r.method = log[i].name
               /\ r.parameters = ToolCallOf(log[i].id).arguments

\* C14 witness: get_weather raised 'Weather service unavailable'
C14_Witness ==
  \E i \in 1..Len(log) :
    /\ log[i].op = "target"
    /\ log[i].name = "get_weather"
    /\ log[i].outcome = "raise"
    /\ log[i].reply = <<"Weather service unavailable">>
    /\ ~ResultFor(log[i].id).success

\* C15: execute_api_call calls the resolved target function exactly once, with
\* exactly the keyword arguments of the call; when the function returns, the
\* result is {success: true, result: <the value>, method: <name>,
\* parameters: <the same arguments>}.
C15_CalledOnceWithGivenArguments ==
  \A i \in 1..Len(log) :
    (log[i].op = "execute_api_call" /\ TargetInvoked(log[i].name, apis))
      => /\ Cardinality(TargetCallsFor(log[i].id)) = 1
         /\ \A j \in TargetCallsFor(log[i].id) :
              /\ log[j].name = log[i].name
              /\ log[j].args = ToolCallOf(log[i].id).arguments
              /\ log[j].outcome = "return"
                   => LET r == ResultFor(log[i].id)
                      IN /\ r.keys = {"success", "result", "method", "parameters"}
                         /\ r.success = TRUE
                         /\ r.result = log[j].value
                         /\ r.method = log[i].name
                         /\ r.parameters = ToolCallOf(log[i].id).arguments

\* C15 witness: get_weather was called with location only and returned its dict
C15_Witness ==
  \E i \in 1..Len(log) :
    /\ log[i].op = "target"
    /\ log[i].name = "get_weather"
    /\ log[i].args = <<<<"location", "Tampa">>>>
    /\ log[i].outcome = "return"
    /\ ResultFor(log[i].id).success
    /\ ResultFor(log[i].id).result.kind = "dict"

\* the last operation was switch_provider(switch_name)
Switched == op = "switch_provider"

\* C16: switch_provider(p) with a known backend p whose provider is available
\* returns True, makes p the primary, writes p to the configuration and saves
\* the configuration.
C16_SwitchToAvailable ==
  (Switched /\ switch_name \in Backends /\ available[switch_name])
    => /\ switch_ret = "true"
       /\ current_provider = switch_name
       /\ config.has_ai
       /\ config.provider = switch_name
       /\ save_called

\* C17: switch_provider with a name that is no known backend returns False and
\* changes neither the primary, nor the fallback, nor the stored
\* configuration, and does not call save_config().
C17_UnknownNameChangesNothing ==
  [][(op' = "switch_provider" /\ switch_name' \notin Backends)
       => /\ switch_ret' = "false"
          /\ current_provider' = current_provider
          /\ fallback_provider' = fallback_provider
          /\ config' = config
          /\ file_provider' = file_provider
          /\ ~save_called']_vars

\* C17 witness: switch_provider("unknown") was called on an orchestrator that
\* holds both providers and a configuration with an ai section
C17_Witness ==
  /\ Switched
  /\ switch_name = "unknown"
  /\ switch_ret = "false"
  /\ current_provider # None
  /\ fallback_provider # None
  /\ config.has_ai

\* C18: whenever the orchestrator holds both a primary and a fallback provider
\* they are instances of different backends.
C18_FallbackIsOtherBackend ==
  (current_provider # None /\ fallback_provider # None)
    => current_provider # fallback_provider

\* C19: chat() calls interleaved on one orchestrator, also those overlapping
\* the lazy construction of registry reference, executor and function target,
\* return what they return when run alone: a call whose detection result
\* carries tool calls has executed them.
C19_ToolCallsAlwaysExecuted ==
  \A t \in Threads :
    (t_pc[t] = "done" /\ t_response[t].tool_calls # <<>>)
      => t_ret[t].value.entities.has_function_results

\* intent is API_CALL exactly when the tool_calls list is not empty
ApiCallIffToolCalls(r) == (r.intent = "api_call") <=> (r.tool_calls # <<>>)

LastClear ==
  IF \E i \in 1..Len(r_history) : r_history[i].op = "clear"
    THEN CHOOSE i \in 1..Len(r_history) :
           /\ r_history[i].op = "clear"
           /\ \A j \in (i + 1)..Len(r_history) : r_history[j].op # "clear"
    ELSE 0

\* positions of the registrations under a name since the last clear()
RegistrationsOf(name) ==
  {i \in (LastClear + 1)..Len(r_history) :
     r_history[i].op = "register" /\ r_history[i].func.fname = name}

\* the function most recently registered under a name
LastRegistered(name) ==
  r_history[CHOOSE i \in RegistrationsOf(name) : \A j \in RegistrationsOf(name) : j <= i].func

\* C21: get_all_apis() maps each name registered since the last clear() to the
\* definition most recently registered under it, holds every name once, and
\* is empty right after clear(); registering the definition that is already
\* there changes nothing.
C21_OverwriteNotMerge ==
  /\ [](LET _apis == r_heap.registry
        IN r_op # None =>
             /\ \A i, j \in 1..Len(_apis) : _apis[i][1] = _apis[j][1] => i = j
             /\ \A n \in FunctionNames :
                  /\ HasKey(_apis, n) <=> RegistrationsOf(n) # {}
                  /\ HasKey(_apis, n)
                       => Get(_apis, n, APIDefinition(GetWeather))
                            = APIDefinition(LastRegistered(n))
             /\ r_op = "clear" => _apis = <<>>)
  /\ [][(/\ r_op' = "register"
         /\ r_history # <<>>
         /\ r_history' # r_history
         /\ r_history[Len(r_history)] = r_history'[Len(r_history')])
          => r_heap'.registry = r_heap.registry]_vars

\* C21 witness: get_weather was registered twice with different definitions
\* and the registry holds the second one
C21_Witness ==
  /\ r_op = "register"
  /\ Cardinality(RegistrationsOf("get_weather")) = 2
  /\ r_history[1].func # r_history[2].func
  /\ Get(r_heap.registry, "get_weather", APIDefinition(GetWeather))
       = APIDefinition(r_history[2].func)

\* C22: a mapping obtained from get_all_apis() keeps its entries when the
\* registry is changed later, and adding, replacing or removing its keys
\* changes neither the registry nor what the executor finds.
C22_DefensiveCopy ==
  /\ [][(r_ref # None /\ r_op' \in {"register", "clear"})
          => r_heap'[r_ref] = r_heap[r_ref]]_vars
  /\ [][r_op' \in {"put", "remove"} => r_heap'.registry = r_heap.registry]_vars
  /\ [](r_op = "lookup" => (r_found.found <=> RegistrationsOf(r_found.name) # {}))

\* C22 witness: the caller emptied the mapping it got while the registry
\* still holds two names
C22_Witness ==
  /\ r_ref = "copy"
  /\ r_op = "remove"
  /\ r_heap.copy = <<>>
  /\ Len(r_heap.registry) = 2

\* the decorated function an APIDefinition was built for
FunctionOf(api_def) == CHOOSE f \in Functions : f.id = api_def.method

\* the lines of a docstring's Args section: after the Args header, up to the
\* next section header
ArgsSection(doc) ==
  IF \E i \in 1..Len(doc) : doc[i].header = "Args"
    THEN LET a == CHOOSE i \in 1..Len(doc) :
                    doc[i].header = "Args" /\ \A j \in 1..(i - 1) : doc[j].header # "Args"
             rest == SubSeq(doc, a + 1, Len(doc))
             e == IF \E i \in 1..Len(rest) : rest[i].header # ""
                    THEN (CHOOSE i \in 1..Len(rest) :
                            rest[i].header # "" /\ \A j \in 1..(i - 1) : rest[j].header = "") - 1
                    ELSE Len(rest)
         IN SubSeq(rest, 1, e)
    ELSE <<>>

\* the text after '<param>:' in the Args section, "" when there is none
DocumentedAs(doc, param_name) ==
  LET lines == SelectSeq(ArgsSection(doc), LAMBDA l : l.key = param_name)
  IN IF lines = <<>> THEN "" ELSE lines[1].text

\* C23: the parameter metadata of every registered function has one entry per
\* formal parameter except self; required is true exactly when no default is
\* declared, the stored default then being None, else the declared default is
\* stored; the description is the text after '<param>:' in the docstring's
\* Args section, or the empty string.
C23_ParameterMetadata ==
  \A i \in 1..Len(r_heap.registry) :
    LET api_def == r_heap.registry[i][2]
        func == FunctionOf(api_def)
        formals == SelectSeq(func.params, LAMBDA q : q.name # "self")
    IN /\ Len(api_def.parameters) = Len(formals)
       /\ \A j \in 1..Len(formals) :
            LET info == api_def.parameters[j][2]
            IN /\ api_def.parameters[j][1] = formals[j].name
               /\ info.required <=> ~formals[j].has_default
               /\ info.required => info.default = "None"
               /\ ~info.required => info.default = formals[j].default
               /\ info.description = DocumentedAs(func.doc, formals[j].name)

\* the names of a dict kept as a sequence of items
Keys(d) == {d[i][1] : i \in 1..Len(d)}

\* the elements of a list
Elements(l) == {l[i] : i \in 1..Len(l)}

\* C24: both schema generators give one schema per definition, with the
\* definition's name and description; every parameter is a property of type
\* 'string', and 'required' lists exactly the parameters whose required flag
\* is true; for no definitions both give the empty list.
C24_SchemasEquivalent ==
  r_op = "schemas" =>
    /\ Len(r_tools) = Len(r_defs)
    /\ Len(r_functions) = Len(r_defs)
    /\ r_defs = <<>> => (r_tools = <<>> /\ r_functions = <<>>)
    /\ \A i \in 1..Len(r_defs) :
         LET api_def == r_defs[i][2]
             a == r_tools[i]
             o == r_functions[i]
             flagged == {api_def.parameters[j][1] :
                           j \in {q \in 1..Len(api_def.parameters) :
                                    api_def.parameters[q][2].required}}
         IN /\ a.name = r_defs[i][1]
            /\ o.name = r_defs[i][1]
            /\ a.description = api_def.description
            /\ o.description = api_def.description
            /\ Keys(a.input_schema.properties) = Keys(api_def.parameters)
            /\ Keys(o.parameters.properties) = Keys(api_def.parameters)
            /\ \A j \in 1..Len(a.input_schema.properties) :
                 a.input_schema.properties[j][2].type = "string"
            /\ \A j \in 1..Len(o.parameters.properties) :
                 o.parameters.properties[j][2].type = "string"
            /\ Elements(a.input_schema.required) = flagged
            /\ Elements(o.parameters.required) = flagged
            /\ Len(a.input_schema.required) = Cardinality(flagged)
            /\ Len(o.parameters.required) = Cardinality(flagged)

\* C24 witness: schemas were generated for two definitions, one of them with
\* a parameter declared int and two parameters that are not required
C24_Witness ==
  /\ r_op = "schemas"
  /\ Len(r_defs) = 2
  /\ \E i \in 1..2 :
       /\ r_defs[i][1] = "get_weather"
       /\ r_defs[i][2].method = "HomeAPIs.get_weather"
       /\ r_functions[i].parameters.required = <<"location">>
       /\ r_tools[i].input_schema.required = <<"location">>



\* chat() returned a reply, and the shared computation was then called with
\* the same text and finish reason
SameTextAndFinish ==
  /\ p_result.kind = "return"
  /\ p_outcome.stage = "reply"
  /\ p_base.called
  /\ p_base.text = p_outcome.text
  /\ p_base.len = p_outcome.len
  /\ p_base.finish_reason = p_outcome.finish_reason

\* C25: for the same response text and finish reason, the confidence a
\* provider's chat() gives, Claude-style or GPT-style, equals the one of the
\* shared base computation.
C25_SameConfidenceEverywhere ==
  SameTextAndFinish => p_result.value.confidence = p_base.value

\* the finish reason is one that is penalised
PenalisedFinish(f) == f \in {"length", "content_filter", "stop_sequence"}

\* the arguments the shared computation can be called with
ConfidenceInputs ==
  {[text |-> t.text, len |-> t.len, indicator |-> t.indicator, finish_reason |-> f]
     : t \in ConfidenceTexts, f \in FinishReasons \cup {"none"}}

\* y is the input x without one of x's penalty conditions
WithoutOneCondition(x, y) ==
  \/ /\ x.len < 10 /\ y.len >= 10
     /\ y.indicator = x.indicator /\ y.finish_reason = x.finish_reason
  \/ /\ PenalisedFinish(x.finish_reason) /\ ~PenalisedFinish(y.finish_reason)
     /\ y.text = x.text /\ y.len = x.len /\ y.indicator = x.indicator
  \/ /\ x.indicator /\ ~y.indicator
     /\ y.len = x.len /\ y.finish_reason = x.finish_reason

\* C26: the confidence computed for any text and finish reason lies in
\* [0.1, 0.95], and an input with a penalty condition (text shorter than 10
\* characters, truncated or filtered finish, apology or error vocabulary)
\* never scores higher than the same input without that condition.
C26_ClampedAndMonotone ==
  p_base.called =>
    /\ p_base.value >= 10
    /\ p_base.value <= 95
    /\ \A y \in ConfidenceInputs :
         WithoutOneCondition(p_base, y)
           => p_base.value <= _calculate_response_confidence(y, y.finish_reason)

\* C26 witness: a short apology with a filtered finish scores the lower bound,
\* below the same text with an ordinary finish
C26_Witness ==
  /\ p_base.called
  /\ p_base.len < 10
  /\ p_base.indicator
  /\ p_base.finish_reason = "content_filter"
  /\ p_base.value = 10
  /\ \E y \in ConfidenceInputs :
       /\ WithoutOneCondition(p_base, y)
       /\ p_base.value < _calculate_response_confidence(y, y.finish_reason)



\* C27: whenever switch_provider returns False (unknown name, backend not
\* available, construction error, error while writing or saving the
\* configuration) the primary provider and the stored active-provider name,
\* in memory and in the file, are what they were before the call.
C27_FalseLeavesPrimaryAndName ==
  [][(op' = "switch_provider" /\ switch_ret' = "false")
       => /\ current_provider' = current_provider
          /\ config' = config
          /\ file_provider' = file_provider]_vars



\* the state changes of the loop: from, to, and what the iteration met
AllowedChange(from, to, met) ==
  \/ from = LISTENING_FOR_WAKE_WORD /\ to = WAKE_WORD_DETECTED /\ met = "wake_word"
  \/ from = WAKE_WORD_DETECTED /\ to = PROCESSING_COMMAND /\ met = "command"
  \/ from = WAKE_WORD_DETECTED /\ to = LISTENING_FOR_WAKE_WORD /\ met = "no_command"
  \/ from = PROCESSING_COMMAND /\ to = RESPONDING /\ met = "response"
  \/ from = PROCESSING_COMMAND /\ to = LISTENING_FOR_WAKE_WORD /\ met = "no_response"
  \/ from = RESPONDING /\ to = LISTENING_FOR_WAKE_WORD
  \/ to = ERROR /\ met = "exception"
  \/ from = ERROR /\ to = LISTENING_FOR_WAKE_WORD
  \/ to = SHUTTING_DOWN /\ ~running'

\* C28: the main loop changes state only LISTENING -> WAKE_DETECTED (wake
\* word), WAKE_DETECTED -> PROCESSING (command) or -> LISTENING (none),
\* PROCESSING -> RESPONDING or -> LISTENING, RESPONDING -> LISTENING, any
\* state -> ERROR on an exception, ERROR -> LISTENING, and -> SHUTTING_DOWN
\* when the loop ends; an iteration in RESPONDING always goes to LISTENING,
\* spoken or not, with the stored command and response cleared.
C28_LoopCycle ==
  [][/\ current_state' # current_state
          => AllowedChange(current_state, current_state', event')
     /\ (current_state = RESPONDING /\ event' \in {"spoken", "not_spoken"})
          => /\ current_state' = LISTENING_FOR_WAKE_WORD
             /\ command_to_process' = None
             /\ response_to_speak' = None]_vars

\* C28 witness: a full cycle whose response could not be spoken is back in
\* LISTENING with nothing stored
C28_Witness ==
  /\ current_state = LISTENING_FOR_WAKE_WORD
  /\ event = "not_spoken"
  /\ heard \in Commands
  /\ stats.commands_processed = 1
  /\ command_to_process = None
  /\ response_to_speak = None

NameReturned == n_pc = "done" /\ n_ret.value # None

\* C30 (safety): a name is returned only when it was extracted from the
\* recognized reply of the last listening attempt and the confirmation that
\* followed was recognized as positive; a failed attempt is followed by a new
\* prompt; None is returned after 1 + 50 listening attempts, and there are
\* never more.
C30_Safety ==
  /\ NameReturned
       => /\ Len(n_heard) = 2
          /\ n_heard[1].success
          /\ n_ret.value = _extract_name_from_response(n_heard[1].words)
          /\ n_heard[2].success
          /\ _is_positive_response(n_heard[2].words)
  /\ (n_pc = "loop" /\ n_listens > 1)
       => \E k \in 1 .. Len(funny_prompts) : n_spoken[1] = funny_prompts[k]
  /\ (n_pc = "done" /\ n_ret.value = None) => n_listens = 1 + max_attempts
  /\ n_listens <= 1 + max_attempts
  /\ n_pc \in {"start", "loop", "done"}

\* C30 (termination): every step of collect_name makes one more listening
\* attempt or ends the call; with the bound on the attempts no run has more
\* than 1 + 50 + 1 steps.
C30_Progress ==
  /\ n_pc # "done"
  /\ n_listens' = n_listens + 1 \/ n_pc' = "done"

====
